---- MODULE Spec2Model ----
(***************************************************************************)
(* A model of the UnaMentis management daemon (server/management):         *)
(*   - the service supervisor of server.py (start_service),                *)
(*   - the idle state machine of idle_manager.py,                          *)
(*   - the telemetry rings and the WebSocket broadcaster of server.py,     *)
(*   - the hourly/daily aggregator of metrics_history.py.                  *)
(* The daemon is one asyncio event loop: a coroutine runs without          *)
(* interruption from one await to the next, so every action below is the   *)
(* code between two awaits of one coroutine.                               *)
(***************************************************************************)
EXTENDS Integers, Sequences, FiniteSets, TLC

(***************************************************************************)
(* Bounds of the model (not program constants).                            *)
(***************************************************************************)
\* children the supervisor may spawn in one run
MaxSpawns == 2

(***************************************************************************)
(* State.                                                                  *)
(***************************************************************************)
\* service supervisor (server.py)
VARIABLES
    svc,        \* svc[s]: the ManagedService record of s (status, pid, started_at, error_message, process)
    children,   \* children[p]: "alive" | "exited", for every pid p the supervisor has spawned (1..Len)
    health,     \* health[s]: TRUE iff a GET of s's health_url answers 200 now
    call        \* call[c]: the start_service coroutine of handler c (its position and locals)

\* service supervisor: stop, startup detection and reconciliation (server.py)
VARIABLES
    stopc,      \* stopc[k]: the stop_service coroutine of handler k (its position and locals)
    boot,       \* the services detect_existing_processes has still to visit at startup
    recon       \* the service handle_get_services is probing, "none" outside the probe

\* idle state machine (idle_manager.py)
VARIABLES
    now,                \* time.time()
    current_state,      \* IdleManager.current_state
    last_activity,      \* IdleManager.last_activity
    enabled,            \* IdleManager.enabled
    thresholds,         \* IdleManager.thresholds
    current_mode,       \* IdleManager.current_mode
    power_modes,        \* the module-level POWER_MODES table
    keep_awake_until,   \* IdleManager._keep_awake_until, -1 for None
    transition_history, \* IdleManager.transition_history (from_state, to_state, trigger of each record)
    global_handlers,    \* IdleManager._global_handlers
    monitor,            \* the _monitor_loop task: [pc, wake_at]
    ready,              \* tasks made by asyncio.create_task, in the loop's FIFO ready queue
    inflight,           \* executions of _transition_to suspended at an await, oldest first
    wake_owed           \* record_activity was called with the tier not ACTIVE and the tier has not changed since

\* the hooks of the tier manager (idle_manager.py)
VARIABLES
    handlers,                \* IdleManager._handlers: tier -> the handlers registered for it, in order
    vibevoice_load_callback  \* whether IdleManager._vibevoice_load_callback is set

\* custom power profiles (idle_manager.py)
VARIABLES
    profiles_file,      \* the contents of data/power_profiles.json: profile id -> dict (empty: no file)
    last_op,            \* the last profile operation called: its name, arguments and result
    write_failures      \* writes of power_profiles.json that raised so far

\* _calculate_state applied to drawn inputs (idle_manager.py)
VARIABLES
    calc                \* [th, a, b, ta, tb]: a threshold set, two idle durations, the tiers computed for them

\* telemetry rings, client table and WebSocket broadcaster (server.py)
VARIABLES
    logs,               \* state.logs: deque(maxlen=MAX_LOG_ENTRIES) of LogEntry
    metrics_history,    \* state.metrics_history: deque(maxlen=MAX_METRICS_HISTORY) of MetricsSnapshot
    stats,              \* state.stats: the running counters
    clients,            \* state.clients: client_id -> RemoteClient (total_logs, total_sessions)
    websockets,         \* state.websockets: the set of connected peers
    peer,               \* peer[p]: the connection of peer p as the server's transport sees it
    inbox,              \* inbox[p]: the frames written to the transport of peer p, in order
    req,                \* req[r]: the ingest handler coroutine of slot r (its position and locals)
    failed,             \* peers whose send raised in a broadcast that is over and that are still in the set
    ingested,           \* entries, snapshots and undecodable bodies posted in this run
    rejected,           \* log requests answered 400 because of their body, in this run
    clears              \* calls of handle_clear_logs in this run

\* hourly/daily aggregator (metrics_history.py)
VARIABLES
    clock,              \* datetime.now(), as [date, hour]
    hourly_metrics,     \* MetricsHistory.hourly_metrics: hour key -> HourlyMetrics
    daily_metrics,      \* MetricsHistory.daily_metrics: date key -> DailyMetrics
    current_hour,       \* MetricsHistory._current_hour, NoHour for None
    hour_accumulator,   \* MetricsHistory._hour_accumulator, NoAccumulator for None
    hist_running,       \* MetricsHistory._running
    dirty,              \* MetricsHistory._dirty
    disk,               \* the contents of metrics_hourly.json and metrics_daily.json
    recorded            \* recorded[h]: record_sample calls made during hour h, over all runs

\* the data directory (metrics_history.py, idle_manager.py)
VARIABLES
    torn                \* the files whose content on disk is a truncated or partial write

\* service activity and service metrics (resource_monitor.py)
VARIABLES
    mon_now,            \* time.time(), in seconds
    service_activity,   \* ResourceMonitor.service_activity: service id -> its activity dict
    service_metrics,    \* ResourceMonitor.service_metrics: service id -> ServiceResourceMetrics
    events,             \* the 'request' activity events recorded in this run: [service, at]
    ticks,              \* calls of _update_service_metrics in this run
    request_hours       \* the hours (of clock) in which 'request' activity was recorded

supVars == <<svc, children, health, call>>

monVars == <<mon_now, service_activity, service_metrics, events, ticks, request_hours>>

lifeVars == <<stopc, boot, recon>>

idleVars == <<now, current_state, last_activity, enabled, thresholds, current_mode, power_modes,
              keep_awake_until, transition_history, global_handlers, monitor, ready, inflight, wake_owed>>

hookVars == <<handlers, vibevoice_load_callback>>

profVars == <<profiles_file, last_op, write_failures>>

calcVars == <<calc>>

ingestVars == <<logs, metrics_history, stats, clients, websockets, peer, inbox, req, failed, ingested,
               rejected, clears>>

histVars == <<clock, hourly_metrics, daily_metrics, current_hour, hour_accumulator, hist_running,
              dirty, disk, recorded>>

crashVars == <<torn>>

vars == <<supVars, lifeVars, idleVars, hookVars, profVars, calcVars, ingestVars, histVars, crashVars,
          monVars>>

\* what the actions of one subsystem leave unchanged: the state of the others
notSup == <<monVars, lifeVars, idleVars, hookVars, profVars, calcVars, ingestVars, histVars, crashVars>>
notLife == <<monVars, idleVars, hookVars, profVars, calcVars, ingestVars, histVars, crashVars>>
notHook == <<monVars, supVars, lifeVars, profVars, calcVars, ingestVars, histVars, crashVars>>
notIdle == <<notHook, hookVars>>
notProfFile == <<monVars, supVars, lifeVars, hookVars, calcVars, ingestVars, histVars>>
notProf == <<notProfFile, crashVars>>
notCalc == <<monVars, supVars, lifeVars, idleVars, hookVars, profVars, ingestVars, histVars, crashVars>>
notClear == <<monVars, supVars, lifeVars, idleVars, hookVars, profVars, calcVars, histVars, crashVars>>
notReq == <<notClear, clears>>
notIngest == <<notReq, rejected>>
notHistFiles == <<monVars, supVars, lifeVars, idleVars, hookVars, profVars, calcVars, ingestVars>>
notHist == <<notHistFiles, crashVars>>
notMon == <<supVars, lifeVars, idleVars, hookVars, profVars, calcVars, ingestVars, histVars, crashVars>>

(***************************************************************************)
(* Service supervisor: server.py, ManagedService / start_service.          *)
(***************************************************************************)
\* the ids registered by ManagementState._init_managed_services
Services == {"vibevoice", "nextjs"}
\* the ids a request may name: the registered ones and one that is not registered
ServiceIds == Services \cup {"ghost"}
\* the HTTP handler tasks that may run start_service concurrently
Callers == {"h1", "h2"}

\* ManagedService defaults: pid, started_at and process are None (0 / FALSE / 0)
ManagedService ==
    [status |-> "stopped", pid |-> 0, started_at |-> FALSE, error_message |-> "", process |-> 0]

IdleCall ==
    [pc |-> "idle", sid |-> "ghost", spawned |-> FALSE, overlapped |-> FALSE, result |-> "none",
     stop_returned |-> FALSE]

InitSup ==
    /\ svc = [s \in Services |-> ManagedService]
    /\ children = << >>
    /\ health = [s \in Services |-> FALSE]
    /\ call = [c \in Callers |-> IdleCall]

\* a start_service call that has not returned yet
InFlight(c) == call[c].pc # "idle"

\* subprocess.Popen.poll() is None
ProcessAlive(p) == p # 0 /\ children[p] = "alive"

\* calls that will still reach subprocess.Popen
PendingSpawns == Cardinality({c \in Callers : call[c].pc \in {"probe", "bcast_starting"}})

Return(c, res) == call' = [call EXCEPT ![c].pc = "idle", ![c].result = res]

\* start_service up to its first await: the registry lookup and the owned-process check
StartBegin(c, sid) ==
    /\ call[c].pc = "idle"
    /\ Len(children) + PendingSpawns < MaxSpawns
    /\ LET fresh == [pc |-> "idle", sid |-> sid, spawned |-> FALSE,
                     overlapped |-> \E d \in Callers \ {c} : InFlight(d) /\ call[d].sid = sid,
                     result |-> "none", stop_returned |-> FALSE]
       IN  IF sid \notin Services
             THEN call' = [call EXCEPT ![c] = [fresh EXCEPT !.result = "not_found"]]
             ELSE IF ProcessAlive(svc[sid].process)
               THEN call' = [call EXCEPT ![c] = [fresh EXCEPT !.result = "already_running"]]
               ELSE call' = [call EXCEPT ![c] = [fresh EXCEPT !.pc = "probe"]]
    /\ UNCHANGED <<svc, children, health, notSup>>

\* the health probe (check_service_running) answers
StartProbed(c) ==
    /\ call[c].pc = "probe"
    /\ LET s == call[c].sid
       IN  IF health[s]
             THEN /\ svc' = [svc EXCEPT ![s].status = "running"]
                  /\ Return(c, "already_running_on_port")
             ELSE /\ svc' = [svc EXCEPT ![s].status = "starting", ![s].error_message = ""]
                  /\ call' = [call EXCEPT ![c].pc = "bcast_starting"]
    /\ UNCHANGED <<children, health, notSup>>

\* the except branch of start_service: status error, then the await of the error broadcast
ExceptBranch(c, s, base) ==
    /\ svc' = [base EXCEPT ![s].status = "error", ![s].error_message = "exception"]
    /\ call' = [call EXCEPT ![c].pc = "bcast_error"]

\* the 'starting' broadcast returns and subprocess.Popen spawns the child
SpawnChild(c) ==
    /\ call[c].pc = "bcast_starting"
    /\ LET s == call[c].sid
           p == Len(children) + 1
       IN  /\ children' = Append(children, "alive")
           /\ svc' = [svc EXCEPT ![s].process = p, ![s].pid = p, ![s].started_at = TRUE]
           /\ call' = [call EXCEPT ![c].pc = "sleep", ![c].spawned = TRUE]
    /\ UNCHANGED <<health, notSup>>

\* the 'starting' broadcast or subprocess.Popen raises
SpawnFails(c) ==
    /\ call[c].pc = "bcast_starting"
    /\ ExceptBranch(c, call[c].sid, svc)
    /\ UNCHANGED <<children, health, notSup>>

\* asyncio.sleep(2) is over: poll the process the service record holds now
StartAfterSleep(c) ==
    /\ call[c].pc = "sleep"
    /\ LET s == call[c].sid
       IN  IF svc[s].process = 0
             THEN ExceptBranch(c, s, svc)
             ELSE IF ~ProcessAlive(svc[s].process)
               THEN /\ svc' = [svc EXCEPT ![s].status = "error", ![s].error_message = "exited"]
                    /\ call' = [call EXCEPT ![c].pc = "bcast_exited"]
               ELSE /\ svc' = [svc EXCEPT ![s].status = "running"]
                    /\ call' = [call EXCEPT ![c].pc = "bcast_running"]
    /\ UNCHANGED <<children, health, notSup>>

\* the last broadcast of the call returns and start_service returns
StartReturn(c) ==
    /\ call[c].pc \in {"bcast_exited", "bcast_running", "bcast_error"}
    /\ Return(c, CASE call[c].pc = "bcast_running" -> "started"
                   [] call[c].pc = "bcast_exited" -> "process_exited"
                   [] OTHER -> "exception")
    /\ UNCHANGED <<svc, children, health, notSup>>

\* a broadcast inside the try block raises: the except branch runs
FinalBroadcastRaises(c) ==
    /\ call[c].pc \in {"bcast_exited", "bcast_running"}
    /\ ExceptBranch(c, call[c].sid, svc)
    /\ UNCHANGED <<children, health, notSup>>

\* environment: a spawned child exits
ChildExit(p) ==
    /\ p \in DOMAIN children
    /\ children[p] = "alive"
    /\ children' = [children EXCEPT ![p] = "exited"]
    /\ UNCHANGED <<svc, health, call, notSup>>

\* environment: the health URL of s starts or stops answering 200
HealthChange(s) ==
    /\ health' = [health EXCEPT ![s] = ~health[s]]
    /\ UNCHANGED <<svc, children, call, notSup>>

NextSupervisor ==
    \/ \E c \in Callers, sid \in ServiceIds : StartBegin(c, sid)
    \/ \E c \in Callers : StartProbed(c)
    \/ \E c \in Callers : SpawnChild(c)
    \/ \E c \in Callers : SpawnFails(c)
    \/ \E c \in Callers : StartAfterSleep(c)
    \/ \E c \in Callers : StartReturn(c)
    \/ \E c \in Callers : FinalBroadcastRaises(c)
    \/ \E p \in 1..MaxSpawns : ChildExit(p)
    \/ \E s \in Services : HealthChange(s)

\* two different handlers are both inside start_service for the same service
Concurrent(c, d) == c # d /\ InFlight(c) /\ InFlight(d) /\ call[c].sid = call[d].sid

(***************************************************************************)
(* C1 Supervisor mutual exclusion: two start(s) calls that run             *)
(* concurrently spawn at most one child in total, and the call that began  *)
(* while the other was in flight returns a conflict error ("already        *)
(* running").  start_service holds no lock over its awaits, so the model   *)
(* refutes it: both calls pass the owned-process check and the health      *)
(* probe before either reaches subprocess.Popen.                           *)
(***************************************************************************)
C1_StartMutualExclusion ==
    /\ \A c, d \in Callers : Concurrent(c, d) => ~(call[c].spawned /\ call[d].spawned)
    /\ \A c \in Callers :
          (~InFlight(c) /\ call[c].overlapped /\ call[c].sid \in Services)
             => call[c].result \in {"already_running", "already_running_on_port"}

(***************************************************************************)
(* Idle state machine: idle_manager.py.                                    *)
(***************************************************************************)
\* IdleState, from most active to most dormant
IdleStates == {"active", "warm", "cool", "cold", "dormant"}

\* IdleState.level
Level(st) ==
    CASE st = "active" -> 0
      [] st = "warm" -> 1
      [] st = "cool" -> 2
      [] st = "cold" -> 3
      [] st = "dormant" -> 4

\* IdleThresholds(warm, cool, cold, dormant), in seconds
IdleThresholds(w, c, k, d) == [warm |-> w, cool |-> c, cold |-> k, dormant |-> d]

\* the defaults of the IdleThresholds dataclass
DefaultThresholds == IdleThresholds(30, 300, 1800, 7200)

\* the fields of IdleThresholds
ThresholdKeys == {"warm", "cool", "cold", "dormant"}

\* IdleThresholds.from_dict: the known keys of data, the dataclass defaults for the keys it lacks
FromDict(data) ==
    [k \in ThresholdKeys |-> IF k \in DOMAIN data THEN data[k] ELSE DefaultThresholds[k]]

\* the built-in power modes
BUILTIN_POWER_MODES ==
    [performance |->
        [name |-> "Performance",
         description |-> "Never idle, always ready. Maximum responsiveness, highest power.",
         thresholds |-> IdleThresholds(9999999, 9999999, 9999999, 9999999),
         enabled |-> FALSE],
     balanced |->
        [name |-> "Balanced",
         description |-> "Default settings. Good balance of responsiveness and power saving.",
         thresholds |-> IdleThresholds(30, 300, 1800, 7200), enabled |-> TRUE],
     power_saver |->
        [name |-> "Power Saver",
         description |-> "Aggressive power saving. Longer wake times but much lower power.",
         thresholds |-> IdleThresholds(10, 60, 300, 1800), enabled |-> TRUE],
     development |->
        [name |-> "Development",
         description |-> "Optimized for active development. Quick transitions but saves power during breaks.",
         thresholds |-> IdleThresholds(60, 180, 600, 3600), enabled |-> TRUE],
     presentation |->
        [name |-> "Presentation",
         description |-> "For demos and presentations. Stays responsive longer.",
         thresholds |-> IdleThresholds(300, 900, 3600, 7200), enabled |-> TRUE]]

\* the mode names the model passes to set_mode: two built-in modes and one unknown name
ModeNames == {"performance", "balanced", "nosuch"}

\* the dicts the model passes to set_thresholds
ThresholdChoices == {IdleThresholds(5, 10, 15, 20)}

\* the tiers the model passes to force_state
ForceTargets == {"warm", "cold"}

\* the handlers the model registers with register_global_handler
GlobalHandlers == {"on_change"}

\* the durations the model passes to keep_awake
KeepAwakeDurations == {10}

\* the steps by which the wall clock advances between two events
ClockSteps == {10}

\* asyncio.sleep(10) of _monitor_loop
MonitorInterval == 10

\* deque(maxlen=100) of transition_history
HistoryMaxLen == 100

\* end of the modelled time span
MaxNow == 10
\* transitions recorded in one run
MaxTransitions == 2
\* tasks created with asyncio.create_task and not yet run
MaxTasks == 2

\* the manager at time 0 of a run, with the transition history h
InitIdleWith(h) ==
    /\ now = 0
    /\ current_state = "active"
    /\ last_activity = 0
    /\ enabled = TRUE
    /\ thresholds = DefaultThresholds
    /\ current_mode = "balanced"
    /\ power_modes = BUILTIN_POWER_MODES
    /\ keep_awake_until = -1
    /\ transition_history = h
    /\ global_handlers = << >>
    /\ monitor = [pc |-> "stopped", wake_at |-> 0]
    /\ ready = << >>
    /\ inflight = << >>
    /\ wake_owed = FALSE
    /\ handlers = [tier \in IdleStates |-> << >>]
    /\ vibevoice_load_callback = FALSE

\* IdleManager.__init__
InitIdle == InitIdleWith(<< >>)

\* the timestamp of a history record, to the precision the model keeps: whether the record
\* was made in the run, at a time >= 0, or before it
Stamp(t) == IF t >= 0 THEN 0 ELSE -1

\* the history n transitions leave that went from ACTIVE to WARM by the timer and back by
\* activity, the last of them to ACTIVE, all before the start of the run
PastHistory(n) ==
    [i \in 1..n |->
        IF (n - i) % 2 = 0
          THEN [timestamp |-> Stamp(-1), from_state |-> "warm", to_state |-> "active",
                trigger |-> "activity"]
          ELSE [timestamp |-> Stamp(-1), from_state |-> "active", to_state |-> "warm",
                trigger |-> "timeout"]]

\* the lengths of the history at the start of a run: empty, one short of full
HistoryPrefills == {0, HistoryMaxLen - 1}

\* _calculate_state comparing with > where the code compares with >= (mutant)
CalculateStateStrict(th, idle_seconds) ==
    IF idle_seconds > th.dormant THEN "dormant"
    ELSE IF idle_seconds > th.cold THEN "cold"
    ELSE IF idle_seconds > th.cool THEN "cool"
    ELSE IF idle_seconds > th.warm THEN "warm"
    ELSE "active"

\* _calculate_state with thresholds th: the deepest threshold is tested first (mutant: the shallowest first)
CalculateStateAscending(th, idle_seconds) ==
    IF idle_seconds >= th.warm THEN "warm"
    ELSE IF idle_seconds >= th.cool THEN "cool"
    ELSE IF idle_seconds >= th.cold THEN "cold"
    ELSE IF idle_seconds >= th.dormant THEN "dormant"
    ELSE "active"

\* IdleManager._calculate_state, with self.thresholds = th
CalculateState(th, idle_seconds) ==
    IF idle_seconds >= th.dormant THEN "dormant"
    ELSE IF idle_seconds >= th.cold THEN "cold"
    ELSE IF idle_seconds >= th.cool THEN "cool"
    ELSE IF idle_seconds >= th.warm THEN "warm"
    ELSE "active"

\* append to a deque without maxlen (mutant)
DequeAppendUnbounded(q, x, maxlen) == Append(q, x)

\* deque.append on a deque with maxlen: the oldest element is dropped when full
DequeAppend(q, x, maxlen) == IF Len(q) >= maxlen THEN Append(Tail(q), x) ELSE Append(q, x)

\* a history record without its timestamp
Core(t) == [from_state |-> t.from_state, to_state |-> t.to_state, trigger |-> t.trigger]

\* one step of the transition procedure
Phase(kind, name) == [kind |-> kind, name |-> name]

\* the awaits of _execute_state_actions that suspend, for a transition old -> new:
\* _unload_vibevoice, _unload_ollama_models
UnloadPhases(old, new) ==
    IF Level(new) > Level(old)
      THEN IF new = "cool" THEN <<Phase("unload", "tts")>>
           ELSE IF new \in {"cold", "dormant"}
                  THEN <<Phase("unload", "tts"), Phase("unload", "llm")>>
           ELSE << >>
      ELSE << >>

\* the awaits of the handler loops of _transition_to: the handlers of the new tier, then the
\* global handlers
HandlerPhases(new) ==
    [i \in 1..Len(handlers[new]) |-> Phase("handler", handlers[new][i])]
    \o [i \in 1..Len(global_handlers) |-> Phase("global_handler", global_handlers[i])]

\* _execute_state_actions creates the pre-warm task when waking from COLD or DORMANT
PreWarms(old, new) == Level(old) > Level(new) /\ old \in {"cold", "dormant"}

\* the transitions recorded since the start of the run (time 0) that the history still holds
TransitionsInRun ==
    Cardinality({i \in DOMAIN transition_history : transition_history[i].timestamp >= 0})

\* a task, a handler or the monitor may begin one more transition within the bounds
MayTransition ==
    /\ TransitionsInRun < MaxTransitions
    /\ Len(ready) < MaxTasks

\* _transition_to(new, trigger) from its call to its first suspending await (or to its return):
\* the early return, the history record, the tier assignment, the creation of the pre-warm task.
\* owner is the coroutine that awaits it; queue is the ready queue it leaves behind.
TransitionTo(new, trigger, owner, queue) ==
    IF new = current_state
      THEN /\ ready' = queue
           /\ UNCHANGED <<current_state, transition_history, inflight, wake_owed, notIdle>>
      ELSE LET old == current_state
               sync == <<Phase("record_history", ""), Phase("set_state", "")>>
                       \o (IF PreWarms(old, new) THEN <<Phase("pre_warm", "")>> ELSE << >>)
               todo == UnloadPhases(old, new) \o HandlerPhases(new)
           IN  /\ transition_history' =
                     DequeAppend(transition_history,
                                 [timestamp |-> Stamp(now), from_state |-> old, to_state |-> new,
                                  trigger |-> trigger],
                                 HistoryMaxLen)
               /\ current_state' = new
               /\ wake_owed' = FALSE
               /\ ready' = IF PreWarms(old, new) THEN Append(queue, [kind |-> "pre_warm"]) ELSE queue
               /\ inflight' = IF todo = << >> THEN inflight
                              ELSE Append(inflight,
                                          [owner |-> owner, old |-> old, new |-> new,
                                           trigger |-> trigger, done |-> sync, todo |-> todo,
                                           raised |-> FALSE])

\* whether TransitionTo(new, ...) leaves its caller suspended
Suspends(new) ==
    new # current_state /\ UnloadPhases(current_state, new) \o HandlerPhases(new) # << >>

\* time passes
Advance(d) ==
    /\ now + d <= MaxNow
    /\ now' = now + d
    /\ UNCHANGED <<current_state, last_activity, enabled, thresholds, current_mode, power_modes,
                   keep_awake_until, transition_history, global_handlers, monitor, ready, inflight, wake_owed, notIdle>>

\* IdleManager.start
IdleStart ==
    /\ monitor.pc = "stopped"
    /\ monitor' = [pc |-> "sleeping", wake_at |-> now + MonitorInterval]
    /\ UNCHANGED <<now, current_state, last_activity, enabled, thresholds, current_mode, power_modes,
                   keep_awake_until, transition_history, global_handlers, ready, inflight, wake_owed, notIdle>>

\* IdleManager.stop: the monitor task is cancelled, also inside a transition it awaits
IdleStop ==
    /\ monitor.pc # "stopped"
    /\ monitor' = [pc |-> "stopped", wake_at |-> 0]
    /\ inflight' = SelectSeq(inflight, LAMBDA t : t.owner # "monitor")
    /\ UNCHANGED <<now, current_state, last_activity, enabled, thresholds, current_mode, power_modes,
                   keep_awake_until, transition_history, global_handlers, ready, wake_owed, notIdle>>

\* IdleManager.register_global_handler, called while no transition is in flight
RegisterGlobalHandler(h) ==
    /\ \A i \in 1..Len(global_handlers) : global_handlers[i] # h
    /\ inflight = << >>
    /\ global_handlers' = Append(global_handlers, h)
    /\ UNCHANGED <<now, current_state, last_activity, enabled, thresholds, current_mode, power_modes,
                   keep_awake_until, transition_history, monitor, ready, inflight, wake_owed, notIdle>>

\* IdleManager.record_activity
RecordActivity ==
    /\ Len(ready) < MaxTasks
    /\ last_activity' = now
    /\ IF current_state # "active" /\ enabled
         THEN ready' = Append(ready, [kind |-> "transition", new |-> "active", trigger |-> "activity"])
         ELSE UNCHANGED ready
    /\ wake_owed' = (wake_owed \/ current_state # "active")
    /\ UNCHANGED <<now, current_state, enabled, thresholds, current_mode, power_modes,
                   keep_awake_until, transition_history, global_handlers, monitor, inflight, notIdle>>

\* IdleManager.set_mode
SetMode(mode_name) ==
    /\ IF mode_name \in DOMAIN power_modes
         THEN /\ current_mode' = mode_name
              /\ enabled' = power_modes[mode_name].enabled
              /\ thresholds' = power_modes[mode_name].thresholds
         ELSE UNCHANGED <<current_mode, enabled, thresholds>>
    /\ UNCHANGED <<now, current_state, last_activity, power_modes, keep_awake_until,
                   transition_history, global_handlers, monitor, ready, inflight,
                   wake_owed, notIdle>>

\* IdleManager.set_thresholds
SetThresholds(th) ==
    /\ thresholds' = FromDict(th)
    /\ current_mode' = "custom"
    /\ UNCHANGED <<now, current_state, last_activity, enabled, power_modes, keep_awake_until,
                   transition_history, global_handlers, monitor, ready, inflight,
                   wake_owed, notIdle>>

\* IdleManager.keep_awake
KeepAwake(duration_seconds) ==
    /\ Len(ready) < MaxTasks
    /\ keep_awake_until' = now + duration_seconds
    /\ IF current_state # "active"
         THEN ready' = Append(ready, [kind |-> "transition", new |-> "active", trigger |-> "keep_awake"])
         ELSE UNCHANGED ready
    /\ UNCHANGED <<now, current_state, last_activity, enabled, thresholds, current_mode, power_modes,
                   transition_history, global_handlers, monitor, inflight, wake_owed, notIdle>>

\* IdleManager.cancel_keep_awake
CancelKeepAwake ==
    /\ keep_awake_until # -1
    /\ keep_awake_until' = -1
    /\ UNCHANGED <<now, current_state, last_activity, enabled, thresholds, current_mode, power_modes,
                   transition_history, global_handlers, monitor, ready, inflight,
                   wake_owed, notIdle>>

\* IdleManager.force_state, up to the first suspending await of the transition
ForceState(st) ==
    /\ MayTransition
    /\ st # current_state
    /\ TransitionTo(st, "manual", "caller", ready)
    /\ UNCHANGED <<now, last_activity, enabled, thresholds, current_mode, power_modes,
                   keep_awake_until, global_handlers, monitor, notIdle>>

\* the event loop runs the oldest task made by create_task: a scheduled _transition_to ...
RunTransitionTask ==
    /\ ready # << >>
    /\ Head(ready).kind = "transition"
    /\ Head(ready).new = current_state \/ TransitionsInRun < MaxTransitions
    /\ TransitionTo(Head(ready).new, Head(ready).trigger, "task", Tail(ready))
    /\ UNCHANGED <<now, last_activity, enabled, thresholds, current_mode, power_modes,
                   keep_awake_until, global_handlers, monitor, notIdle>>

\* _pre_warm_services starting an LLM load as well (mutant)
PreWarmLoadsBoth ==
    IF vibevoice_load_callback THEN <<[kind |-> "tts_load"], [kind |-> "llm_load"]>> ELSE << >>

\* the tasks _pre_warm_services creates: the TTS load callback when one is set, never an LLM load
PreWarmLoads == IF vibevoice_load_callback THEN <<[kind |-> "tts_load"]>> ELSE << >>

\* ... or _pre_warm_services
RunPreWarmTask ==
    /\ ready # << >>
    /\ Head(ready).kind = "pre_warm"
    /\ ready' = Tail(ready) \o PreWarmLoads
    /\ UNCHANGED <<now, current_state, last_activity, enabled, thresholds, current_mode, power_modes,
                   keep_awake_until, transition_history, global_handlers, monitor, inflight,
                   wake_owed, notIdle>>

\* whether the keep-awake override is in force
KeepAwakeActive == keep_awake_until # -1 /\ now < keep_awake_until

\* _monitor_loop skipping every iteration (mutant)
MonitorSkipsAlways == TRUE

\* _monitor_loop without its keep-awake test (mutant)
MonitorSkipsDisabledOnly == ~enabled

\* the iterations of _monitor_loop that 'continue': disabled, or keep-awake in force
MonitorSkips == ~enabled \/ KeepAwakeActive

\* one iteration of _monitor_loop after asyncio.sleep(10) returned
MonitorWake ==
    /\ monitor.pc = "sleeping"
    /\ now >= monitor.wake_at
    /\ MayTransition
    /\ IF MonitorSkips
         THEN /\ monitor' = [pc |-> "sleeping", wake_at |-> now + MonitorInterval]
              /\ UNCHANGED <<keep_awake_until, current_state, transition_history, ready, inflight,
                             wake_owed>>
         ELSE LET target == CalculateState(thresholds, now - last_activity)
              IN  /\ keep_awake_until' = -1
                  /\ TransitionTo(target, "timeout", "monitor", ready)
                  /\ monitor' = IF Suspends(target)
                                  THEN [pc |-> "in_transition", wake_at |-> 0]
                                  ELSE [pc |-> "sleeping", wake_at |-> now + MonitorInterval]
    /\ UNCHANGED <<now, last_activity, enabled, thresholds, current_mode, power_modes,
                   global_handlers, notIdle>>

\* a transition that an Exception of a handler ends (mutant)
HandlerRaiseAborts(todo, outcome) ==
    IF outcome = "raise" /\ Head(todo).kind \in {"handler", "global_handler"} THEN << >> ELSE Tail(todo)

\* a transition that an Exception of an unload ends (mutant)
UnloadRaiseAborts(todo, outcome) ==
    IF outcome = "raise" /\ Head(todo).kind = "unload" THEN << >> ELSE Tail(todo)

\* what is left of a transition after the await at the head of todo returned or raised an
\* Exception: the unload helpers and both handler loops catch and log it
AfterPhase(todo, outcome) == Tail(todo)

\* the await at the head of the todo list of in-flight transition i ends with the outcome
Step(i, outcome) ==
    /\ i \in DOMAIN inflight
    /\ LET t == inflight[i]
           rest == AfterPhase(t.todo, outcome)
       IN  /\ IF rest # << >>
                THEN /\ inflight' = [inflight EXCEPT ![i].todo = rest,
                                                     ![i].done = Append(t.done, Head(t.todo)),
                                                     ![i].raised = t.raised \/ outcome = "raise"]
                     /\ UNCHANGED monitor
                ELSE /\ inflight' = [j \in 1..(Len(inflight) - 1) |->
                                        IF j < i THEN inflight[j] ELSE inflight[j + 1]]
                     /\ monitor' = IF t.owner = "monitor"
                                     THEN [pc |-> "sleeping", wake_at |-> now + MonitorInterval]
                                     ELSE monitor
    /\ UNCHANGED <<now, current_state, last_activity, enabled, thresholds, current_mode, power_modes,
                   keep_awake_until, transition_history, global_handlers, ready,
                   wake_owed, notIdle>>

\* the await returns
TransitionStep(i) == Step(i, "ok")

\* the await raises an Exception
TransitionStepRaises(i) == Step(i, "raise")

\* IdleManager.register_handler, called while no transition is in flight
RegisterHandler(tier, h) ==
    /\ \A i \in 1..Len(handlers[tier]) : handlers[tier][i] # h
    /\ inflight = << >>
    /\ handlers' = [handlers EXCEPT ![tier] = Append(@, h)]
    /\ UNCHANGED <<idleVars, vibevoice_load_callback, notHook>>

\* the owner of the manager sets its _vibevoice_load_callback attribute
SetLoadCallback ==
    /\ ~vibevoice_load_callback
    /\ vibevoice_load_callback' = TRUE
    /\ UNCHANGED <<idleVars, handlers, notHook>>

\* _pre_warm_services when the call of the load callback raises: the Exception is caught and
\* no load task is created
PreWarmRaises ==
    /\ ready # << >>
    /\ Head(ready).kind = "pre_warm"
    /\ vibevoice_load_callback
    /\ ready' = Tail(ready)
    /\ UNCHANGED <<now, current_state, last_activity, enabled, thresholds, current_mode, power_modes,
                   keep_awake_until, transition_history, global_handlers, monitor, inflight,
                   wake_owed, notIdle>>

\* the event loop runs the task of the load callback; whether it returns or raises, nothing of
\* the manager changes
RunLoadTask ==
    /\ ready # << >>
    /\ Head(ready).kind = "tts_load"
    /\ ready' = Tail(ready)
    /\ UNCHANGED <<now, current_state, last_activity, enabled, thresholds, current_mode, power_modes,
                   keep_awake_until, transition_history, global_handlers, monitor, inflight,
                   wake_owed, notIdle>>

\* tiers and names of the per-tier handlers registered in the runs explored
HandlerTiers == {"cold", "active"}
TierHandlers == {"on_enter"}

\* the transition procedure with its hooks, driven by callers and tasks: handlers of both
\* kinds, the load callback, and awaits that raise
NextTransition ==
    \/ \E tier \in HandlerTiers : \E h \in TierHandlers : RegisterHandler(tier, h)
    \/ \E h \in GlobalHandlers : RegisterGlobalHandler(h)
    \/ SetLoadCallback
    \/ RecordActivity
    \/ \E d \in KeepAwakeDurations : KeepAwake(d)
    \/ \E st \in ForceTargets : ForceState(st)
    \/ RunTransitionTask
    \/ RunPreWarmTask
    \/ PreWarmRaises
    \/ RunLoadTask
    \/ \E i \in 1..MaxTransitions : TransitionStep(i)
    \/ \E i \in 1..MaxTransitions : TransitionStepRaises(i)

\* the timer loop and the callers of the manager, with unloads, handlers and pre-warms that raise
NextFaults ==
    \/ \E d \in ClockSteps : Advance(d)
    \/ IdleStart
    \/ \E h \in GlobalHandlers : RegisterGlobalHandler(h)
    \/ SetLoadCallback
    \/ RecordActivity
    \/ \E th \in ThresholdChoices : SetThresholds(th)
    \/ \E st \in ForceTargets : ForceState(st)
    \/ RunTransitionTask
    \/ RunPreWarmTask
    \/ PreWarmRaises
    \/ RunLoadTask
    \/ MonitorWake
    \/ \E i \in 1..MaxTransitions : TransitionStep(i)
    \/ \E i \in 1..MaxTransitions : TransitionStepRaises(i)

NextIdleManager ==
    \/ \E d \in ClockSteps : Advance(d)
    \/ IdleStart
    \/ IdleStop
    \/ \E h \in GlobalHandlers : RegisterGlobalHandler(h)
    \/ RecordActivity
    \/ \E m \in ModeNames : SetMode(m)
    \/ \E th \in ThresholdChoices : SetThresholds(th)
    \/ \E d \in KeepAwakeDurations : KeepAwake(d)
    \/ CancelKeepAwake
    \/ \E st \in ForceTargets : ForceState(st)
    \/ RunTransitionTask
    \/ RunPreWarmTask
    \/ MonitorWake
    \/ \E i \in 1..MaxTransitions : TransitionStep(i)

(***************************************************************************)
(* C2 Energy-tier transitions are totally ordered: at any moment at most   *)
(* one execution of the transition procedure is in flight.  Nothing        *)
(* serializes _transition_to: force_state and the tasks made by            *)
(* record_activity and keep_awake enter it while the monitor's transition  *)
(* is suspended in an unload or a handler, so the model refutes it.        *)
(***************************************************************************)
C2_OneTransitionInFlight == Len(inflight) <= 1

(***************************************************************************)
(* C3 Activity resets immediately: record_activity sets last_activity to   *)
(* the call time, and after a call made while the tier is not ACTIVE the   *)
(* next change of the tier is to ACTIVE.  The wake is a task that runs     *)
(* later (and is not even created while the mode is disabled), so a        *)
(* force_state in between moves the tier elsewhere: the model refutes it.  *)
(***************************************************************************)
C3_ActivityResetsImmediately ==
    [][ /\ (last_activity' # last_activity => last_activity' = now)
        /\ ((wake_owed /\ current_state' # current_state) => current_state' = "active") ]_vars

(***************************************************************************)
(* C4 Keep-awake dominance as claimed: whenever keep_awake_until is set    *)
(* and later than now, the current tier is ACTIVE.  Refuted: keep_awake    *)
(* only schedules the wake, and force_state ignores the override.          *)
(***************************************************************************)
C4_KeepAwakeTierIsActive == KeepAwakeActive => current_state = "active"

(***************************************************************************)
(* C4 Keep-awake dominance, amended: while keep_awake_until is set and     *)
(* later than now, no transition with trigger 'timeout' is recorded, and   *)
(* every transition that is recorded goes to ACTIVE or is a manual one.    *)
(***************************************************************************)
C4_KeepAwakeSuppressesTimer ==
    [][ (KeepAwakeActive /\ transition_history' # transition_history)
           => LET t == transition_history'[Len(transition_history')]
              IN  t.trigger # "timeout" /\ (t.to_state = "active" \/ t.trigger = "manual") ]_vars

\* keep-awake is in force, the monitor has just run an iteration, the idle time calls for another
\* tier than the current one, and the last transition was made under the override
C4_Witness ==
    /\ KeepAwakeActive
    /\ enabled
    /\ monitor = [pc |-> "sleeping", wake_at |-> now + MonitorInterval]
    /\ now >= MonitorInterval
    /\ CalculateState(thresholds, now - last_activity) # current_state
    /\ transition_history # << >>
    /\ transition_history[Len(transition_history)].trigger \in {"manual", "keep_awake"}

\* a task that will run _transition_to(ACTIVE, ...) is in the ready queue
PendingWake == \E i \in 1..Len(ready) : ready[i].kind = "transition" /\ ready[i].new = "active"

\* the step is one iteration of _monitor_loop
MonitorTicks == monitor.pc = "sleeping" /\ monitor' # monitor /\ monitor'.pc # "stopped"

\* the four triggers of a transition, on a history that may be one short of full
NextHistory ==
    \/ \E d \in ClockSteps : Advance(d)
    \/ IdleStart
    \/ RecordActivity
    \/ \E d \in KeepAwakeDurations : KeepAwake(d)
    \/ \E st \in ForceTargets : ForceState(st)
    \/ RunTransitionTask
    \/ RunPreWarmTask
    \/ MonitorWake
    \/ \E i \in 1..MaxTransitions : TransitionStep(i)

\* each record goes from one tier to another, starts where the record before it ended, and
\* the newest ends at the current tier
IsChain(h) ==
    /\ \A i \in DOMAIN h : h[i].from_state # h[i].to_state
    /\ \A i \in DOMAIN h : i > 1 => (h[i].from_state = h[i - 1].to_state)
    /\ h # << >> => (h[Len(h)].to_state = current_state)

(***************************************************************************)
(* C39 Transition history is a consistent chain: after any interleaving of *)
(* timer, activity, keep-awake and manual triggers, the history holds at   *)
(* most 100 records (oldest evicted), no record has from_state equal to    *)
(* to_state, each record's from_state equals the to_state of the record    *)
(* before it, and the to_state of the newest record equals the current     *)
(* tier.                                                                   *)
(***************************************************************************)
C39_HistoryIsChain ==
    /\ [](Len(transition_history) <= HistoryMaxLen /\ IsChain(transition_history))
    /\ [][(transition_history' # transition_history /\ Len(transition_history) = HistoryMaxLen)
            => /\ Len(transition_history') = HistoryMaxLen
               /\ \A i \in 1..(HistoryMaxLen - 1) :
                     transition_history'[i] = transition_history[i + 1]]_vars

\* the history is full and has evicted its oldest record: it holds two transitions of the
\* run, one by the timer and one by a manual, activity or keep-awake trigger
C39_Witness ==
    /\ Len(transition_history) = HistoryMaxLen
    /\ TransitionsInRun = 2
    /\ \E i, j \in DOMAIN transition_history :
          /\ transition_history[i].timestamp >= 0
          /\ transition_history[i].trigger = "timeout"
          /\ transition_history[j].timestamp >= 0
          /\ transition_history[j].trigger \in {"manual", "activity", "keep_awake"}

(***************************************************************************)
(* C21 With the mode disabled (enabled = false) an iteration of the timer  *)
(* loop never changes the tier, and activity still wakes: after            *)
(* record_activity was called with the tier not ACTIVE, the transition to  *)
(* ACTIVE is scheduled until the tier changes.  Refuted: record_activity   *)
(* creates the wake task only when the mode is enabled.                    *)
(***************************************************************************)
C21_DisabledStillWakes ==
    /\ [](wake_owed => PendingWake)
    /\ [][(MonitorTicks /\ ~enabled)
             => (current_state' = current_state /\ transition_history' = transition_history)]_vars

(***************************************************************************)
(* C26 Timer-driven descent: on an iteration of the timer loop with the    *)
(* mode enabled and no keep-awake in force, when the idle time has reached *)
(* the threshold of a tier deeper than the current one, the tier becomes   *)
(* the tier computed for that idle time and the record {from = old tier,   *)
(* to = new tier, trigger = "timeout"} is appended to the history.         *)
(***************************************************************************)
C26_TimerDescent ==
    [][(/\ MonitorTicks
        /\ enabled
        /\ ~KeepAwakeActive
        /\ \E tier \in {"warm", "cool", "cold", "dormant"} :
               Level(tier) > Level(current_state) /\ now - last_activity >= thresholds[tier])
       => LET target == CHOOSE tier \in {"warm", "cool", "cold", "dormant"} :
                           /\ now - last_activity >= thresholds[tier]
                           /\ \A u \in {"warm", "cool", "cold", "dormant"} :
                                  now - last_activity >= thresholds[u] => Level(u) <= Level(tier)
          IN  /\ current_state' = target
              /\ transition_history' =
                     Append(transition_history,
                            [timestamp |-> Stamp(now), from_state |-> current_state,
                             to_state |-> target, trigger |-> "timeout"])]_vars

\* the timer has just moved the tier from ACTIVE to COOL after ten idle seconds
C26_Witness ==
    /\ current_state = "cool"
    /\ now - last_activity >= thresholds.cool
    /\ transition_history # << >>
    /\ Core(transition_history[Len(transition_history)]) =
           [from_state |-> "active", to_state |-> "cool", trigger |-> "timeout"]

\* the step appends a record to the transition history
Recorded == transition_history' # transition_history

\* the awaits of the transition that the step has begun, none if it began none
BegunTodo == IF Len(inflight') > Len(inflight) THEN inflight'[Len(inflight')].todo ELSE << >>

\* the transition that the step has begun will await the phase
Invokes(ph) == \E i \in 1..Len(BegunTodo) : BegunTodo[i] = ph

(***************************************************************************)
(* C27 Every transition whose new tier is COLD or DORMANT invokes the TTS  *)
(* unload and the LLM unload, and every transition whose new tier is COOL  *)
(* invokes the TTS unload, whatever the old tier and the trigger.          *)
(* Refuted: _execute_state_actions unloads only when the new tier is       *)
(* deeper than the old one.                                                *)
(***************************************************************************)
C27_UnloadsOnEntry ==
    [][Recorded =>
         LET to == transition_history'[Len(transition_history')].to_state
         IN  /\ to \in {"cold", "dormant"}
                  => Invokes(Phase("unload", "tts")) /\ Invokes(Phase("unload", "llm"))
             /\ (to = "cool") => Invokes(Phase("unload", "tts"))]_vars

\* tasks of one kind in a ready queue
TasksOfKind(q, kind) == Cardinality({i \in DOMAIN q : q[i].kind = kind})

\* the record is a wake from COLD or DORMANT to a shallower tier
DeepWake(rec) ==
    rec.from_state \in {"cold", "dormant"} /\ Level(rec.to_state) < Level(rec.from_state)

\* the wakes from COLD or DORMANT recorded in the history
DeepWakes == Cardinality({k \in DOMAIN transition_history : DeepWake(transition_history[k])})

\* the step records a wake from COLD or DORMANT
RecordsDeepWake == Recorded /\ DeepWake(transition_history'[Len(transition_history')])

(***************************************************************************)
(* C28 Pre-warm on wake: a transition from COLD or DORMANT to a shallower  *)
(* tier dispatches exactly one pre-warm task and no other step dispatches  *)
(* one; a pre-warm task starts the TTS load callback at most once, only    *)
(* when one is set, and never an LLM load; so the pre-warms and loads      *)
(* pending never exceed the wakes recorded, however many activity or       *)
(* keep-awake triggers were queued before the wake ran.                    *)
(***************************************************************************)
C28_PreWarmOnWake ==
    /\ []( /\ TasksOfKind(ready, "pre_warm") + TasksOfKind(ready, "tts_load") <= DeepWakes
           /\ TasksOfKind(ready, "llm_load") = 0)
    /\ [][ /\ RecordsDeepWake
                => TasksOfKind(ready', "pre_warm") = TasksOfKind(ready, "pre_warm") + 1
           /\ ~RecordsDeepWake
                => TasksOfKind(ready', "pre_warm") <= TasksOfKind(ready, "pre_warm")
           /\ TasksOfKind(ready', "tts_load") > TasksOfKind(ready, "tts_load")
                => /\ TasksOfKind(ready', "tts_load") = TasksOfKind(ready, "tts_load") + 1
                   /\ TasksOfKind(ready', "pre_warm") = TasksOfKind(ready, "pre_warm") - 1
                   /\ vibevoice_load_callback]_vars

\* two triggers were queued while the tier was COLD and a load callback is set; the first has
\* run the wake and its pre-warm task is pending, the second is still in the queue
C28_Witness ==
    /\ current_state = "active"
    /\ vibevoice_load_callback
    /\ DeepWakes = 1
    /\ TasksOfKind(ready, "transition") = 1
    /\ TasksOfKind(ready, "pre_warm") = 1
    /\ \E i \in DOMAIN ready : ready[i].kind = "transition" /\ ready[i].trigger = "keep_awake"

\* the place of a phase in the transition procedure
Rank(ph) ==
    CASE ph.kind = "record_history" -> 1
      [] ph.kind = "set_state" -> 2
      [] ph.kind \in {"pre_warm", "unload"} -> 3
      [] ph.kind = "handler" -> 4
      [] ph.kind = "global_handler" -> 5

\* the phases of an in-flight transition, those done and those to do
Plan(e) == e.done \o e.todo

\* the phases are in the order of the procedure and every registered handler is among them
InOrder(e) ==
    /\ Plan(e)[1].kind = "record_history"
    /\ Plan(e)[2].kind = "set_state"
    /\ \A i, j \in DOMAIN Plan(e) : (i < j) => (Rank(Plan(e)[i]) <= Rank(Plan(e)[j]))
    /\ SelectSeq(Plan(e), LAMBDA ph : ph.kind = "handler")
          = [i \in 1..Len(handlers[e.new]) |-> Phase("handler", handlers[e.new][i])]
    /\ SelectSeq(Plan(e), LAMBDA ph : ph.kind = "global_handler")
          = [i \in 1..Len(global_handlers) |-> Phase("global_handler", global_handlers[i])]

\* the history record of an in-flight transition
RecordOf(e) == [from_state |-> e.old, to_state |-> e.new, trigger |-> e.trigger]

\* the transition is recorded, and the tier is its target while its record is the latest
TierKept(e) ==
    /\ \E k \in DOMAIN transition_history : Core(transition_history[k]) = RecordOf(e)
    /\ (Core(transition_history[Len(transition_history)]) = RecordOf(e)) => (current_state = e.new)

\* an in-flight transition with more than one await to go is still in flight after the step,
\* with the same phases and at most one of them done in the step
NoneCutShort ==
    \A i \in DOMAIN inflight :
        Len(inflight[i].todo) > 1
          => \E j \in DOMAIN inflight' :
                /\ inflight'[j].owner = inflight[i].owner
                /\ Plan(inflight'[j]) = Plan(inflight[i])
                /\ Len(inflight'[j].todo) >= Len(inflight[i].todo) - 1

\* the step is an await of an in-flight transition that raised
Raises == \E i \in DOMAIN inflight, j \in DOMAIN inflight' :
              /\ Plan(inflight'[j]) = Plan(inflight[i])
              /\ ~inflight[i].raised
              /\ inflight'[j].raised

(***************************************************************************)
(* C29 Transition procedure order and handler isolation: a transition      *)
(* records the history entry, then sets the tier, then runs the built-in   *)
(* side effects, then invokes every handler registered for the new tier,   *)
(* then every global handler; a handler that raises does not keep the      *)
(* remaining handlers from being invoked and does not undo the tier        *)
(* change.                                                                 *)
(***************************************************************************)
C29_OrderAndIsolation ==
    /\ [](\A i \in DOMAIN inflight : InOrder(inflight[i]) /\ TierKept(inflight[i]))
    /\ [][ /\ NoneCutShort
           /\ Raises => /\ current_state' = current_state
                        /\ transition_history' = transition_history]_vars

\* the handler registered for ACTIVE raised during a wake; the tier is ACTIVE and the global
\* handler is still to be invoked
C29_Witness ==
    \E i \in DOMAIN inflight :
        /\ inflight[i].new = "active"
        /\ inflight[i].raised
        /\ inflight[i].done[Len(inflight[i].done)] = Phase("handler", "on_enter")
        /\ inflight[i].todo = <<Phase("global_handler", "on_change")>>
        /\ current_state = "active"

\* the step ends an in-flight transition of the timer loop
MonitorTransitionEnds ==
    /\ monitor.pc = "in_transition"
    /\ \A j \in DOMAIN inflight' : inflight'[j].owner # "monitor"

\* the step runs a pre-warm task or a load task
PreWarmRuns ==
    \/ TasksOfKind(ready', "pre_warm") < TasksOfKind(ready, "pre_warm")
    \/ TasksOfKind(ready', "tts_load") < TasksOfKind(ready, "tts_load")

(***************************************************************************)
(* C30 Unload and pre-warm failures never fail a transition: when an       *)
(* unload (callback or HTTP fallback) or the pre-warm raises, the          *)
(* transition goes on with the tier equal to its target, its history       *)
(* record kept and every registered handler still invoked, and the timer   *)
(* loop keeps running: it sleeps again when its transition ends and never  *)
(* stops.                                                                  *)
(***************************************************************************)
C30_FailuresNeverFailTransition ==
    /\ [](\A i \in DOMAIN inflight :
             /\ TierKept(inflight[i])
             /\ SelectSeq(Plan(inflight[i]), LAMBDA ph : ph.kind = "global_handler")
                   = [k \in 1..Len(global_handlers) |-> Phase("global_handler", global_handlers[k])]
             /\ (inflight[i].owner = "monitor") => (monitor.pc = "in_transition"))
    /\ [][ /\ NoneCutShort
           /\ (Raises \/ PreWarmRuns)
                => /\ current_state' = current_state
                   /\ transition_history' = transition_history
           /\ PreWarmRuns => (inflight' = inflight)
           /\ MonitorTransitionEnds => (monitor'.pc = "sleeping")
           /\ (monitor.pc # "stopped") => (monitor'.pc # "stopped")]_vars

\* the TTS unload of the timer's descent to COOL raised; the tier is COOL and the global
\* handler is still to be invoked
C30_Witness ==
    \E i \in DOMAIN inflight :
        /\ inflight[i].owner = "monitor"
        /\ inflight[i].raised
        /\ inflight[i].done[Len(inflight[i].done)] = Phase("unload", "tts")
        /\ inflight[i].todo = <<Phase("global_handler", "on_change")>>
        /\ current_state = "cool"
        /\ transition_history[Len(transition_history)].trigger = "timeout"

(***************************************************************************)
(* _calculate_state as a function of the thresholds and the idle time.     *)
(***************************************************************************)
\* largest threshold value drawn
MaxThreshold == 3
\* largest idle duration drawn
MaxIdle == 4

\* set_thresholds and create_profile accept any integers, ordered or not
ThresholdSets ==
    {IdleThresholds(w, c, k, d) : w \in 1..MaxThreshold, c \in 1..MaxThreshold,
                                  k \in 1..MaxThreshold, d \in 1..MaxThreshold}

NoTier == "none"

\* nothing drawn: the value calc has while another subsystem is explored
InitCalcIdle == calc = [th |-> DefaultThresholds, a |-> 0, b |-> 0, ta |-> NoTier, tb |-> NoTier]

InitCalc ==
    calc \in {[th |-> th, a |-> a, b |-> b, ta |-> NoTier, tb |-> NoTier] :
                 th \in ThresholdSets, a \in 0..MaxIdle, b \in 0..MaxIdle}

\* target_state = self._calculate_state(idle_seconds), for the first duration
CalculateFirst ==
    /\ calc.ta = NoTier
    /\ calc' = [calc EXCEPT !.ta = CalculateState(calc.th, calc.a)]
    /\ UNCHANGED notCalc

\* ... and for the second
CalculateSecond ==
    /\ calc.tb = NoTier
    /\ calc' = [calc EXCEPT !.tb = CalculateState(calc.th, calc.b)]
    /\ UNCHANGED notCalc

NextCalc ==
    \/ CalculateFirst
    \/ CalculateSecond

(***************************************************************************)
(* C5 Tier-threshold monotonicity: for every threshold set and all idle    *)
(* durations a < b, the tier computed for a is at the same or a shallower  *)
(* level than the tier computed for b.                                     *)
(***************************************************************************)
C5_TierMonotone ==
    (calc.ta # NoTier /\ calc.tb # NoTier /\ calc.a < calc.b) => Level(calc.ta) <= Level(calc.tb)

\* both tiers are computed, with thresholds that are not in ascending order and two durations
\* that fall into different tiers
C5_Witness ==
    /\ calc.ta # NoTier /\ calc.tb # NoTier
    /\ calc.a < calc.b
    /\ calc.th.warm > calc.th.cool
    /\ Level(calc.ta) < Level(calc.tb)

\* the deepest tier whose threshold is at most idle_seconds, ACTIVE when there is none
DeepestReached(th, idle_seconds) ==
    LET reached == {tier \in {"warm", "cool", "cold", "dormant"} : th[tier] <= idle_seconds}
    IN  IF reached = {} THEN "active"
        ELSE CHOOSE tier \in reached : \A u \in reached : Level(u) <= Level(tier)

(***************************************************************************)
(* C25 The tier selected for an idle duration is the deepest tier whose    *)
(* threshold is less than or equal to the duration, and ACTIVE when no     *)
(* threshold is reached; with thresholds 5, 10, 15, 20 an idle of 16 s     *)
(* gives COLD and one of 21 s gives DORMANT.                               *)
(***************************************************************************)
C25_DeepestTierReached ==
    /\ calc.ta # NoTier => calc.ta = DeepestReached(calc.th, calc.a)
    /\ calc.tb # NoTier => calc.tb = DeepestReached(calc.th, calc.b)
    /\ CalculateState(IdleThresholds(5, 10, 15, 20), 16) = "cold"
    /\ CalculateState(IdleThresholds(5, 10, 15, 20), 21) = "dormant"

\* COLD was selected at exactly its threshold, with the WARM threshold not reached
C25_Witness ==
    /\ calc.ta = "cold"
    /\ calc.a = calc.th.cold
    /\ calc.a < calc.th.warm
    /\ calc.a < calc.th.dormant

(***************************************************************************)
(* Telemetry ingest and the WebSocket broadcaster: server.py.              *)
(***************************************************************************)
\* capacity of the log ring
MAX_LOG_ENTRIES == 10000
\* capacity of the metrics-snapshot ring
MAX_METRICS_HISTORY == 1000

\* the WebSocket peers, numbered in the order in which the hash table of state.websockets
\* holds them: iterating the set visits the connected peers in ascending order
Peers == {1, 2}
\* the HTTP handler tasks that may run an ingest handler concurrently
Slots == {"r1", "r2"}
\* the X-Client-ID headers the model sends
ClientIds == {"c1", "c2"}
\* the bodies the model posts to /api/logs, as the levels of their entries: one entry, a batch
Batches == {<<"INFO">>, <<"ERROR", "WARNING">>}
\* a JSON value that is not an object: log_data.get raises AttributeError on it
NotAnEntry == "not_an_object"
\* bodies with such an element: alone, and after a valid entry
InvalidBatches == {<<NotAnEntry>>, <<"INFO", NotAnEntry>>}

\* entries and snapshots ingested in one run
MaxIngest == 2
\* calls of clear_logs in one run
MaxClears == 1

\* LogEntry; uuid4 ids are unique, the model numbers the entries in arrival order
LogEntry(n, level, client_id) == [id |-> n, level |-> level, client_id |-> client_id]

\* MetricsSnapshot, numbered in arrival order
MetricsSnapshot(n, client_id) == [id |-> n, client_id |-> client_id]

\* RemoteClient, with the two counters the ingest handlers increment
RemoteClient == [total_logs |-> 0, total_sessions |-> 0]

\* a frame of broadcast_message: its type and the id of the entry or snapshot it carries, and
\* the handler slot that sent it
Event(type, n, client_id, r) == [type |-> type, id |-> n, client |-> client_id, slot |-> r]

NoEvent == Event("none", 0, "none", "none")

\* the greeting handle_websocket sends to a new peer
ConnectedEvent == Event("connected", 0, "none", "none")

\* a handler slot with no request: result is the response of its last request; raised, missed and
\* stale tell what happened to the broadcasts of that request
IdleReq ==
    [pc |-> "idle", kind |-> "none", client |-> "none", batch |-> << >>, k |-> 0,
     ev |-> NoEvent, size |-> 0, pos |-> 0, dead |-> {}, start |-> {},
     result |-> "none", received |-> 0, raised |-> FALSE, missed |-> FALSE, stale |-> FALSE]

EmptyStats ==
    [total_logs_received |-> 0, total_metrics_received |-> 0, errors_count |-> 0, warnings_count |-> 0]

InitIngest ==
    /\ logs = << >>
    /\ metrics_history = << >>
    /\ stats = EmptyStats
    /\ clients = [c \in {} |-> RemoteClient]
    /\ websockets = {}
    /\ peer = [p \in Peers |-> "new"]
    /\ inbox = [p \in Peers |-> << >>]
    /\ req = [r \in Slots |-> IdleReq]
    /\ failed = {}
    /\ ingested = 0
    /\ rejected = 0
    /\ clears = 0

\* smallest element of a non-empty set of numbers
Min(S) == CHOOSE x \in S : \A y \in S : x <= y

\* the counters handle_receive_log updates for one entry
CountLog(st, level) ==
    [st EXCEPT !.total_logs_received = @ + 1,
               !.errors_count = IF level \in {"ERROR", "CRITICAL"} THEN @ + 1 ELSE @,
               !.warnings_count = IF level = "WARNING" THEN @ + 1 ELSE @]

\* the client lookup of the ingest handlers: the RemoteClient is created when it is unknown
Upsert(cl, client_id) ==
    [c \in DOMAIN cl \cup {client_id} |-> IF c \in DOMAIN cl THEN cl[c] ELSE RemoteClient]

\* the handler returns the response res; handle_receive_log answers {status: ok, received:
\* len(logs)}
Returned(rq, res) ==
    [IdleReq EXCEPT !.result = res,
                    !.received = IF res = "ok" /\ rq.kind = "log" THEN Len(rq.batch) ELSE 0,
                    !.raised = rq.raised, !.missed = rq.missed, !.stale = rq.stale]

\* a peer that was in the set when the broadcast of rq.ev began and still is, whose send did
\* not fail, and that has not been sent the event
Missed(m) ==
    \E q \in m.rq.start \cap m.websockets :
        /\ q \notin m.rq.dead
        /\ peer[q] # "broken"
        /\ \A i \in DOMAIN m.inbox[q] : m.inbox[q][i] # m.rq.ev

\* 'await broadcast_message(type, data)' is called: no peers, and it returns at once; else the
\* 'for' statement makes its set iterator
BroadcastStart(m, ev) ==
    IF m.websockets = {}
      THEN [m EXCEPT !.rq.k = @ + 1]
      ELSE [m EXCEPT !.rq.pc = "iterate", !.rq.ev = ev, !.rq.size = Cardinality(m.websockets),
                     !.rq.pos = 0, !.rq.dead = {}, !.rq.start = m.websockets,
                     !.rq.stale = @ \/ (m.websockets \cap m.failed # {})]

\* the body of the ingest loop up to the call of broadcast_message: entry rq.k is appended to
\* its ring and counted
AppendEntry(m, r) ==
    LET rq == m.rq
    IN  IF rq.kind = "log"
          THEN LET e == LogEntry(m.stats.total_logs_received + 1, rq.batch[rq.k], rq.client)
               IN  BroadcastStart([m EXCEPT !.logs = DequeAppend(@, e, MAX_LOG_ENTRIES),
                                            !.stats = CountLog(@, e.level)],
                                  Event("log", e.id, rq.client, r))
          ELSE LET s == MetricsSnapshot(m.stats.total_metrics_received + 1, rq.client)
               IN  BroadcastStart([m EXCEPT !.metrics_history = DequeAppend(@, s, MAX_METRICS_HISTORY),
                                            !.stats.total_metrics_received = @ + 1],
                                  Event("metrics", s.id, rq.client, r))

\* The handler of slot r runs from where m.rq stands to its next suspension or to its return.
\* m holds the state the handler reads and writes.  pc "append": at the head of the loop over
\* the entries; pc "iterate": inside broadcast_message, at the head of 'for ws in
\* state.websockets'; pc "send": suspended in 'await ws.send_str' on peer rq.pos.
RECURSIVE Run(_, _)
Run(m, r) ==
    LET rq == m.rq
    IN  IF rq.pc = "append"
          THEN IF rq.k > Len(rq.batch)
                 THEN [m EXCEPT !.rq = Returned(rq, "ok")]
               ELSE IF rq.batch[rq.k] = NotAnEntry
                 \* AttributeError in the construction of the LogEntry: the handler answers 400
                 THEN [m EXCEPT !.rq = Returned(rq, "error")]
                 ELSE Run(AppendEntry(m, r), r)
        ELSE IF Cardinality(m.websockets) # rq.size
          \* RuntimeError: Set changed size during iteration.  It leaves broadcast_message
          \* before the cleanup and is caught by the handler, which answers 400.
          THEN [m EXCEPT !.rq = Returned([rq EXCEPT !.raised = TRUE, !.missed = @ \/ Missed(m)], "error"),
                         !.failed = @ \cup (rq.dead \cap m.websockets)]
        ELSE LET rest == {w \in m.websockets : w > rq.pos}
             IN  IF rest = {}
                   \* the loop is over: state.websockets -= dead_sockets, and the next entry
                   THEN Run([m EXCEPT !.websockets = @ \ rq.dead,
                                      !.failed = @ \ rq.dead,
                                      !.rq = [rq EXCEPT !.pc = "append", !.k = @ + 1, !.ev = NoEvent,
                                                        !.size = 0, !.pos = 0, !.dead = {}, !.start = {},
                                                        !.missed = @ \/ Missed(m)]], r)
                   ELSE LET q == Min(rest)
                        IN  IF peer[q] = "broken"
                              \* send_str raises at once: dead_sockets.add(ws)
                              THEN Run([m EXCEPT !.rq.dead = @ \cup {q}, !.rq.pos = q], r)
                              \* the frame is written to the transport and send_str may suspend
                              ELSE [m EXCEPT !.inbox[q] = Append(@, rq.ev), !.rq.pos = q,
                                             !.rq.pc = "send"]

\* the state a handler reads and writes, with the locals rq of the handler
Machine(rq, cl) ==
    [logs |-> logs, metrics_history |-> metrics_history, stats |-> stats, clients |-> cl,
     websockets |-> websockets, inbox |-> inbox, failed |-> failed, rq |-> rq]

\* the handler of slot r has run to its next suspension or return, reaching m
Commit(m, r) ==
    /\ logs' = m.logs
    /\ metrics_history' = m.metrics_history
    /\ stats' = m.stats
    /\ clients' = m.clients
    /\ websockets' = m.websockets
    /\ inbox' = m.inbox
    /\ failed' = m.failed
    /\ req' = [req EXCEPT ![r] = m.rq]
    /\ rejected' = IF m.rq.pc = "idle" /\ m.rq.result = "error" /\ ~m.rq.raised
                     THEN rejected + 1 ELSE rejected

\* handle_receive_log, from the arrival of the body to the first suspended send (or to the
\* response when no send suspends)
ReceiveLog(r, client_id, batch) ==
    /\ req[r].pc = "idle"
    /\ ingested + Len(batch) <= MaxIngest
    /\ ingested' = ingested + Len(batch)
    /\ LET cl == [Upsert(clients, client_id) EXCEPT ![client_id].total_logs = @ + 1]
           rq == [IdleReq EXCEPT !.pc = "append", !.kind = "log", !.client = client_id,
                                 !.batch = batch, !.k = 1]
       IN  Commit(Run(Machine(rq, cl), r), r)
    /\ UNCHANGED <<peer, notReq>>

\* handle_receive_metrics, likewise
ReceiveMetrics(r, client_id) ==
    /\ req[r].pc = "idle"
    /\ ingested + 1 <= MaxIngest
    /\ ingested' = ingested + 1
    /\ LET cl == [Upsert(clients, client_id) EXCEPT ![client_id].total_sessions = @ + 1]
           rq == [IdleReq EXCEPT !.pc = "append", !.kind = "metrics", !.client = client_id,
                                 !.batch = <<"snapshot">>, !.k = 1]
       IN  Commit(Run(Machine(rq, cl), r), r)
    /\ UNCHANGED <<peer, notReq>>

\* handle_receive_log when 'await request.json()' raises: the body is not JSON and the handler
\* answers 400 before it has touched the state
MalformedLog(r) ==
    /\ req[r].pc = "idle"
    /\ ingested + 1 <= MaxIngest
    /\ ingested' = ingested + 1
    /\ req' = [req EXCEPT ![r] = Returned(IdleReq, "error")]
    /\ rejected' = rejected + 1
    /\ UNCHANGED <<logs, metrics_history, stats, clients, websockets, peer, inbox, failed, notReq>>

\* the counters handle_clear_logs resets, all of them (mutant)
ClearStatsAll(st) == EmptyStats

\* the counters handle_clear_logs resets: errors_count and warnings_count
ClearStats(st) == [st EXCEPT !.errors_count = 0, !.warnings_count = 0]

\* handle_clear_logs, from the call to the first suspended send of its broadcast (or to the
\* response when no send suspends); the model numbers the 'logs_cleared' events in call order.
\* The handler has no try: a RuntimeError of the broadcast is answered by the framework (500).
ClearLogs(r) ==
    /\ req[r].pc = "idle"
    /\ clears < MaxClears
    /\ clears' = clears + 1
    /\ LET rq == [IdleReq EXCEPT !.pc = "append", !.kind = "clear"]
           m == [Machine(rq, clients) EXCEPT !.logs = << >>, !.stats = ClearStats(@)]
       IN  Commit(Run(BroadcastStart(m, Event("logs_cleared", clears + 1, "none", r)), r), r)
    /\ UNCHANGED <<peer, ingested, notClear>>

\* 'await ws.send_str(message)' is over for the handler of slot r: it returns, or it raises
\* because the connection was lost meanwhile; the loop over the peers goes on
BroadcastResumes(r) ==
    /\ req[r].pc = "send"
    /\ peer[req[r].pos] # "stalled"
    /\ LET q == req[r].pos
           rq == [req[r] EXCEPT !.pc = "iterate",
                                !.dead = IF peer[q] \in {"broken", "closed"} THEN @ \cup {q} ELSE @]
       IN  Commit(Run(Machine(rq, clients), r), r)
    /\ UNCHANGED <<peer, ingested, notReq>>

\* handle_websocket up to its read loop: the peer joins the set and is sent the greeting
PeerConnects(p) ==
    /\ peer[p] = "new"
    /\ peer' = [peer EXCEPT ![p] = "open"]
    /\ websockets' = websockets \cup {p}
    /\ inbox' = [inbox EXCEPT ![p] = <<ConnectedEvent>>]
    /\ UNCHANGED <<logs, metrics_history, stats, clients, req, failed, ingested, notIngest>>

\* the finally clause of handle_websocket: the read loop of the peer ended
PeerDisconnects(p) ==
    /\ peer[p] \in {"open", "stalled", "broken"}
    /\ peer' = [peer EXCEPT ![p] = "closed"]
    /\ websockets' = websockets \ {p}
    /\ failed' = failed \ {p}
    /\ UNCHANGED <<logs, metrics_history, stats, clients, inbox, req, ingested, notIngest>>

\* environment: the peer stops reading while a send to it is in progress, so that the send
\* stays suspended in the drain of the transport
PeerStalls(p) ==
    /\ peer[p] = "open"
    /\ \E r \in Slots : req[r].pc = "send" /\ req[r].pos = p
    /\ peer' = [peer EXCEPT ![p] = "stalled"]
    /\ UNCHANGED <<logs, metrics_history, stats, clients, websockets, inbox, req, failed, ingested,
                   notIngest>>

\* environment: the peer reads again
PeerDrains(p) ==
    /\ peer[p] = "stalled"
    /\ peer' = [peer EXCEPT ![p] = "open"]
    /\ UNCHANGED <<logs, metrics_history, stats, clients, websockets, inbox, req, failed, ingested,
                   notIngest>>

\* environment: the connection of the peer is lost; sends to it raise from now on
PeerBreaks(p) ==
    /\ peer[p] \in {"open", "stalled"}
    /\ peer' = [peer EXCEPT ![p] = "broken"]
    /\ UNCHANGED <<logs, metrics_history, stats, clients, websockets, inbox, req, failed, ingested,
                   notIngest>>

NextIngest ==
    \/ \E r \in Slots, c \in ClientIds, b \in Batches : ReceiveLog(r, c, b)
    \/ \E r \in Slots, c \in ClientIds : ReceiveMetrics(r, c)
    \/ \E r \in Slots : BroadcastResumes(r)
    \/ \E p \in Peers : PeerConnects(p)
    \/ \E p \in Peers : PeerDisconnects(p)
    \/ \E p \in Peers : PeerStalls(p)
    \/ \E p \in Peers : PeerDrains(p)
    \/ \E p \in Peers : PeerBreaks(p)

\* log requests with bodies the handler rejects among the valid ones
NextReject ==
    \/ \E r \in Slots, c \in ClientIds, b \in Batches \cup InvalidBatches : ReceiveLog(r, c, b)
    \/ \E r \in Slots : MalformedLog(r)
    \/ \E r \in Slots : BroadcastResumes(r)
    \/ \E p \in Peers : PeerConnects(p)
    \/ \E p \in Peers : PeerDisconnects(p)

\* the step is the arrival of a log request that is answered 400 for its body before it
\* suspends
RejectedAtOnce == rejected' # rejected /\ ingested' # ingested

(***************************************************************************)
(* C23 A log ingest that is rejected with 400 (malformed body, or a batch  *)
(* containing an element that is not a valid entry) changes no state: the  *)
(* log ring, the counters, the client table and the events broadcast are   *)
(* the same as before the request.  Refuted: the client is counted, and    *)
(* the entries before the invalid element are appended, counted and        *)
(* broadcast, before the invalid element raises.                           *)
(***************************************************************************)
C23_RejectedIngestChangesNothing ==
    [][RejectedAtOnce => UNCHANGED <<logs, metrics_history, stats, clients, inbox>>]_vars

\* the rings as n single-entry log requests and k metrics requests of client c1 leave them when
\* no peer is connected and nothing was evicted yet
RingPrefills == {0, MAX_LOG_ENTRIES}
SnapshotPrefills == {0, MAX_METRICS_HISTORY}

InitRing ==
    /\ \E n \in RingPrefills, k \in SnapshotPrefills :
          /\ logs = [i \in 1..n |-> LogEntry(i, "INFO", "c1")]
          /\ metrics_history = [i \in 1..k |-> MetricsSnapshot(i, "c1")]
          /\ stats = [EmptyStats EXCEPT !.total_logs_received = n, !.total_metrics_received = k]
          /\ clients = IF n + k = 0 THEN [c \in {} |-> RemoteClient]
                       ELSE [c \in {"c1"} |-> [total_logs |-> n, total_sessions |-> k]]
    /\ websockets = {}
    /\ peer = [p \in Peers |-> "new"]
    /\ inbox = [p \in Peers |-> << >>]
    /\ req = [r \in Slots |-> IdleReq]
    /\ failed = {}
    /\ ingested = 0
    /\ rejected = 0
    /\ clears = 0

\* ingest with no WebSocket peer connected
NextRing ==
    \/ \E r \in Slots, c \in ClientIds, b \in Batches : ReceiveLog(r, c, b)
    \/ \E r \in Slots, c \in ClientIds : ReceiveMetrics(r, c)

\* ring q holds the last min(n, cap) of the n elements received, oldest first
HoldsMostRecent(q, n, cap) ==
    /\ Len(q) = (IF n <= cap THEN n ELSE cap)
    /\ \A i \in DOMAIN q : q[i].id = n - Len(q) + i

(***************************************************************************)
(* C6 Ring-buffer bound: after any sequence of ingests the log ring holds  *)
(* at most 10 000 entries, exactly 10 000 once more than 10 000 were       *)
(* inserted, and they are the most recently received ones in arrival       *)
(* order; the metrics-snapshot ring likewise with capacity 1 000.          *)
(***************************************************************************)
C6_RingBound ==
    /\ Len(logs) <= MAX_LOG_ENTRIES
    /\ HoldsMostRecent(logs, stats.total_logs_received, MAX_LOG_ENTRIES)
    /\ Len(metrics_history) <= MAX_METRICS_HISTORY
    /\ HoldsMostRecent(metrics_history, stats.total_metrics_received, MAX_METRICS_HISTORY)

\* both rings have evicted: more entries than the capacity were received
C6_Witness ==
    /\ stats.total_logs_received > MAX_LOG_ENTRIES
    /\ Len(logs) = MAX_LOG_ENTRIES
    /\ logs[1].id = stats.total_logs_received - MAX_LOG_ENTRIES + 1
    /\ stats.total_metrics_received > MAX_METRICS_HISTORY
    /\ Len(metrics_history) = MAX_METRICS_HISTORY

(***************************************************************************)
(* C7 Broadcast isolation: a broadcast does not raise to its caller, every *)
(* peer that stays in the set and whose send did not fail receives the     *)
(* event, and a peer whose send failed is out of the set when the next     *)
(* broadcast starts, also with a connect, a disconnect or another          *)
(* broadcast interleaved at a suspended send.  The set is iterated while   *)
(* it changes size, which raises RuntimeError out of broadcast_message:    *)
(* the model refutes it.                                                   *)
(***************************************************************************)
C7_BroadcastIsolation ==
    \A r \in Slots : ~req[r].raised /\ ~req[r].missed /\ ~req[r].stale

(***************************************************************************)
(* C8 Backpressure: a producer inside broadcast never waits on a           *)
(* subscriber: whenever an ingest handler is suspended in a send, it can   *)
(* go on, and a subscriber that does not take the send is not in the peer  *)
(* set.  send_str is awaited without a timeout and nothing drops a slow    *)
(* peer: the model refutes it.                                             *)
(***************************************************************************)
C8_ProducerNeverWaits ==
    /\ \A r \in Slots : req[r].pc = "send" => ENABLED BroadcastResumes(r)
    /\ \A p \in Peers : peer[p] = "stalled" => p \notin websockets

(***************************************************************************)
(* C9 Ingest/broadcast ordering: every peer receives the 'log' events of   *)
(* the entries of one client in the order in which the entries were        *)
(* appended to the ring.  Two requests of one client that overlap refute   *)
(* it: each broadcast goes on from peer to peer on its own.                *)
(***************************************************************************)
C9_BroadcastOrderPerClient ==
    \A p \in Peers : \A i, j \in DOMAIN inbox[p] :
        (i < j /\ inbox[p][i].type = "log" /\ inbox[p][j].type = "log"
               /\ inbox[p][i].client = inbox[p][j].client)
           => inbox[p][i].id < inbox[p][j].id

\* log ingest and clear_logs, on a metrics ring that may hold snapshots already, with peers
\* that connect
NextClear ==
    \/ \E r \in Slots, b \in Batches : ReceiveLog(r, "c1", b)
    \/ \E r \in Slots : ClearLogs(r)
    \/ \E r \in Slots : BroadcastResumes(r)
    \/ \E p \in Peers : PeerConnects(p)

\* the frames of 'logs_cleared' events in the inbox of peer p
ClearedFrames(box, p) == {i \in DOMAIN box[p] : box[p][i].type = "logs_cleared"}

\* the peers the broadcast of a step can write to first: connected, and their send does not raise
Sendable == {p \in websockets : peer[p] # "broken"}

(***************************************************************************)
(* C32 clear_logs() leaves the log ring empty and errors_count =           *)
(* warnings_count = 0, emits one 'logs_cleared' event (no peer is sent     *)
(* more frames of it than there were calls, and the first connected peer   *)
(* is sent it in the call), and leaves total_logs_received, the metrics    *)
(* ring and the client table unchanged.                                    *)
(***************************************************************************)
C32_ClearLogs ==
    /\ [](\A p \in Peers : Cardinality(ClearedFrames(inbox, p)) <= clears)
    /\ [][(clears' # clears)
            => /\ logs' = << >>
               /\ stats'.errors_count = 0
               /\ stats'.warnings_count = 0
               /\ stats'.total_logs_received = stats.total_logs_received
               /\ stats'.total_metrics_received = stats.total_metrics_received
               /\ metrics_history' = metrics_history
               /\ clients' = clients
               /\ \A p \in Peers :
                     Cardinality(ClearedFrames(inbox', p))
                       = Cardinality(ClearedFrames(inbox, p))
                           + (IF Sendable # {} /\ p = Min(Sendable) THEN 1 ELSE 0)]_vars

\* the ring was cleared after an ERROR and a WARNING entry were ingested, and a peer has been
\* sent the event
C32_Witness ==
    /\ clears = 1
    /\ logs = << >>
    /\ stats.total_logs_received = 2
    /\ stats.errors_count = 0
    /\ metrics_history # << >>
    /\ DOMAIN clients # {}
    /\ \E p \in Peers : ClearedFrames(inbox, p) # {}

\* the step is the arrival of a log request whose body is accepted
LogArrives == ingested' # ingested /\ metrics_history' = metrics_history /\ rejected' = rejected

\* the entries the step appended to the log ring
Appended == SubSeq(logs', Len(logs) + 1, Len(logs'))

\* the entries of a sequence with a level among levels
WithLevel(es, levels) == Cardinality({i \in DOMAIN es : es[i].level \in levels})

(***************************************************************************)
(* C31 Log ingest counters: an ingest of k entries appends k LogEntry      *)
(* records, adds k to total_logs_received, the number of ERROR or CRITICAL *)
(* entries to errors_count and the number of WARNING entries to            *)
(* warnings_count, broadcasts one 'log' event per entry and answers        *)
(* {status: ok, received: k}.  It holds for a request that no send         *)
(* suspends; a request whose broadcast is suspended while the peer set     *)
(* changes is answered 400 with a part of its batch ingested, which        *)
(* refutes it.                                                             *)
(***************************************************************************)
C31_LogIngestCounters ==
    [][ /\ \A r \in Slots :
              (LogArrives /\ req[r].pc = "idle" /\ req'[r].pc = "idle" /\ req'[r] # req[r])
                => /\ req'[r].result = "ok"
                   /\ req'[r].received = ingested' - ingested
                   /\ Len(Appended) = ingested' - ingested
                   /\ stats'.total_logs_received = stats.total_logs_received + Len(Appended)
                   /\ stats'.errors_count
                         = stats.errors_count + WithLevel(Appended, {"ERROR", "CRITICAL"})
                   /\ stats'.warnings_count
                         = stats.warnings_count + WithLevel(Appended, {"WARNING"})
        /\ \A r \in Slots :
              (req[r].kind = "log" /\ req[r].pc # "idle" /\ req'[r].pc = "idle")
                => /\ req'[r].result = "ok"
                   /\ req'[r].received = Len(req[r].batch)
                   /\ ~req'[r].raised
                   /\ ~req'[r].missed ]_vars

(***************************************************************************)
(* Hourly/daily aggregation: metrics_history.py.                           *)
(***************************************************************************)
\* last date of the modelled time span (dates are numbered from 0)
MaxDate == 1
\* last hour of a date that the model enters (hours are numbered from 0)
MaxHourOfDay == 1
\* record_sample calls in one run
MaxSamples == 3

\* thermal.pressure_level of the samples the model records
ThermalLevels == {0, 2}

AllHours == (0..MaxDate) \X (0..MaxHourOfDay)

\* now.replace(minute=0, second=0, microsecond=0).isoformat()
HourKey(c) == <<c.date, c.hour>>

\* hourly.hour[:10]
DateKey(h) == h[1]

\* None for _current_hour and _hour_accumulator
NoHour == <<-1, -1>>
NoAccumulator == [hour |-> NoHour, sample_count |-> 0, thermal_level_max |-> 0]

\* _HourAccumulator(hour)
HourAccumulator(h) == [hour |-> h, sample_count |-> 0, thermal_level_max |-> 0]

\* _HourAccumulator.add_sample
AddSample(acc, level) ==
    [acc EXCEPT !.sample_count = @ + 1,
                !.thermal_level_max = IF level > @ THEN level ELSE @]

\* _HourAccumulator.finalize: total_requests is never incremented by add_sample
Finalize(acc) ==
    [hour |-> acc.hour, sample_count |-> acc.sample_count,
     max_thermal_level |-> acc.thermal_level_max, total_requests |-> 0]

\* d[k] = v
Put(d, k, v) == [x \in DOMAIN d \cup {k} |-> IF x = k THEN v ELSE d[x]]

\* sum of f over the finite set S
RECURSIVE SumOver(_, _)
SumOver(S, f) ==
    IF S = {} THEN 0
    ELSE LET x == CHOOSE y \in S : TRUE IN f[x] + SumOver(S \ {x}, f)

\* largest value of f over the non-empty finite set S
MaxOver(S, f) == CHOOSE v \in {f[x] : x \in S} : \A x \in S : f[x] <= v

\* _update_daily_metrics aggregating every stored hour, whatever its date (mutant)
DailyOfAllHours(hm, date_key) ==
    LET day == DOMAIN hm
    IN  [date |-> date_key,
         hours_aggregated |-> Cardinality(day),
         max_thermal_level |-> MaxOver(day, [k \in day |-> hm[k].max_thermal_level]),
         thermal_events_count |-> Cardinality({k \in day : hm[k].max_thermal_level > 1}),
         total_requests |-> SumOver(day, [k \in day |-> hm[k].total_requests]),
         active_hours |-> Cardinality({k \in day : hm[k].total_requests > 0})]

\* _update_daily_metrics(date_key) over the hourly table hm: the DailyMetrics it stores
DailyOf(hm, date_key) ==
    LET day == {k \in DOMAIN hm : DateKey(k) = date_key}
    IN  [date |-> date_key,
         hours_aggregated |-> Cardinality(day),
         max_thermal_level |-> MaxOver(day, [k \in day |-> hm[k].max_thermal_level]),
         thermal_events_count |-> Cardinality({k \in day : hm[k].max_thermal_level > 1}),
         total_requests |-> SumOver(day, [k \in day |-> hm[k].total_requests]),
         active_hours |-> Cardinality({k \in day : hm[k].total_requests > 0})]

\* a finalization that stores nothing (mutant)
FinalizeNothing(s, acc) == s

\* _finalize_current_hour on the tables s = [hourly, daily, dirty] with accumulator acc
FinalizeCurrentHour(s, acc) ==
    IF acc = NoAccumulator \/ acc.sample_count = 0
      THEN s
      ELSE LET hm == Put(s.hourly, acc.hour, Finalize(acc))
           IN  [hourly |-> hm,
                daily |-> Put(s.daily, DateKey(acc.hour), DailyOf(hm, DateKey(acc.hour))),
                dirty |-> TRUE]

Tables == [hourly |-> hourly_metrics, daily |-> daily_metrics, dirty |-> dirty]

\* the files _save_data writes, in the order in which it writes them
HOURLY_FILE == "metrics_hourly.json"
DAILY_FILE == "metrics_daily.json"

EmptyTable == [k \in {} |-> 0]

InitHist ==
    /\ clock = [date |-> 0, hour |-> 0]
    /\ hourly_metrics = EmptyTable
    /\ daily_metrics = EmptyTable
    /\ current_hour = NoHour
    /\ hour_accumulator = NoAccumulator
    /\ hist_running = FALSE
    /\ dirty = FALSE
    /\ disk = [hourly |-> EmptyTable, daily |-> EmptyTable]
    /\ recorded = [h \in AllHours |-> 0]
    /\ torn = {}

\* time passes: the next hour of the date begins
NextHour ==
    /\ clock.hour < MaxHourOfDay
    /\ clock' = [clock EXCEPT !.hour = @ + 1]
    /\ UNCHANGED <<hourly_metrics, daily_metrics, current_hour, hour_accumulator, hist_running,
                   dirty, disk, recorded, notHist>>

\* time passes: the first hour of the next date begins
NextDate ==
    /\ clock.date < MaxDate
    /\ clock' = [date |-> clock.date + 1, hour |-> 0]
    /\ UNCHANGED <<hourly_metrics, daily_metrics, current_hour, hour_accumulator, hist_running,
                   dirty, disk, recorded, notHist>>

\* MetricsHistory.record_sample
RecordSample(level) ==
    /\ SumOver(AllHours, recorded) < MaxSamples
    /\ LET hour_key == HourKey(clock)
           fresh == current_hour # hour_key
           s == IF fresh THEN FinalizeCurrentHour(Tables, hour_accumulator) ELSE Tables
           acc == IF fresh THEN HourAccumulator(hour_key) ELSE hour_accumulator
       IN  /\ hourly_metrics' = s.hourly
           /\ daily_metrics' = s.daily
           /\ current_hour' = hour_key
           /\ hour_accumulator' = AddSample(acc, level)
           /\ dirty' = TRUE
           /\ recorded' = [recorded EXCEPT ![hour_key] = @ + 1]
    /\ UNCHANGED <<clock, hist_running, disk, notHist>>

\* MetricsHistory.start
HistStart ==
    /\ ~hist_running
    /\ hist_running' = TRUE
    /\ UNCHANGED <<clock, hourly_metrics, daily_metrics, current_hour, hour_accumulator, dirty,
                   disk, recorded, notHist>>

\* one iteration of _save_loop after asyncio.sleep(300): _check_hour_boundary, then _save_data
\* when dirty
SaveLoopTick ==
    /\ hist_running
    /\ LET hour_key == HourKey(clock)
           crossed == current_hour # NoHour /\ current_hour # hour_key
           s == IF crossed THEN FinalizeCurrentHour(Tables, hour_accumulator) ELSE Tables
       IN  /\ hourly_metrics' = s.hourly
           /\ daily_metrics' = s.daily
           /\ current_hour' = IF crossed THEN hour_key ELSE current_hour
           /\ hour_accumulator' = IF crossed THEN HourAccumulator(hour_key) ELSE hour_accumulator
           /\ disk' = IF s.dirty THEN [hourly |-> s.hourly, daily |-> s.daily] ELSE disk
           /\ torn' = IF s.dirty THEN torn \ {HOURLY_FILE, DAILY_FILE} ELSE torn
           /\ dirty' = FALSE
    /\ UNCHANGED <<clock, hist_running, recorded, notHistFiles>>

\* MetricsHistory.stop: the save task is cancelled, the current hour is finalized, all is saved
HistStop ==
    /\ LET s == FinalizeCurrentHour(Tables, hour_accumulator)
       IN  /\ hourly_metrics' = s.hourly
           /\ daily_metrics' = s.daily
           /\ disk' = [hourly |-> s.hourly, daily |-> s.daily]
    /\ torn' = torn \ {HOURLY_FILE, DAILY_FILE}
    /\ hist_running' = FALSE
    /\ dirty' = FALSE
    /\ UNCHANGED <<clock, current_hour, hour_accumulator, recorded, notHistFiles>>

\* the daemon is killed inside _save_data, in the json.dump of file f: open(f, 'w') has
\* truncated the file and the dump is not complete.  The hourly file is written first; the
\* daily file is opened only after the hourly file is complete.  The tables in memory are gone
\* with the process.
CrashInFlush(f) ==
    /\ hist_running
    /\ LET hour_key == HourKey(clock)
           crossed == current_hour # NoHour /\ current_hour # hour_key
           s == IF crossed THEN FinalizeCurrentHour(Tables, hour_accumulator) ELSE Tables
       IN  /\ s.dirty
           /\ disk' = IF f = DAILY_FILE THEN [disk EXCEPT !.hourly = s.hourly] ELSE disk
    /\ torn' = (IF f = DAILY_FILE THEN torn \ {HOURLY_FILE} ELSE torn) \cup {f}
    /\ hourly_metrics' = EmptyTable
    /\ daily_metrics' = EmptyTable
    /\ current_hour' = NoHour
    /\ hour_accumulator' = NoAccumulator
    /\ hist_running' = FALSE
    /\ dirty' = FALSE
    /\ UNCHANGED <<clock, recorded, notHistFiles>>

\* the daemon is started again after a stop that saved everything, or after it was killed:
\* MetricsHistory.__init__ with _load_data, where json.load raises on a file that is not
\* complete and the table stays empty
Restart ==
    /\ ~hist_running
    /\ ~dirty
    /\ hourly_metrics' = IF HOURLY_FILE \in torn THEN EmptyTable ELSE disk.hourly
    /\ daily_metrics' = IF DAILY_FILE \in torn THEN EmptyTable ELSE disk.daily
    /\ current_hour' = NoHour
    /\ hour_accumulator' = NoAccumulator
    /\ UNCHANGED <<clock, hist_running, dirty, disk, recorded, notHist>>

NextHist ==
    \/ NextHour
    \/ NextDate
    \/ \E level \in ThermalLevels : RecordSample(level)
    \/ HistStart
    \/ SaveLoopTick
    \/ HistStop
    \/ Restart

\* sample_count of the HourlyMetrics stored for hour h, 0 when there is none
BucketCount(h) == IF h \in DOMAIN hourly_metrics THEN hourly_metrics[h].sample_count ELSE 0

\* stop has finalized and saved, and nothing happened since
ShutDown == ~hist_running /\ ~dirty

(***************************************************************************)
(* C10 Hour rollover correctness: after shutdown finalization every        *)
(* recorded sample is counted in the HourlyMetrics of the hour in which it *)
(* was recorded, and the sample_count of the HourlyMetrics of a date sum   *)
(* up to the number of samples recorded on that date, for any sequence of  *)
(* record_sample, save-loop checks, stop and restart with reload.  After a *)
(* restart within the same hour the new accumulator starts at 0 and its    *)
(* finalization replaces the stored HourlyMetrics: the model refutes it.   *)
(***************************************************************************)
C10_HourRollover ==
    ShutDown =>
       /\ \A h \in AllHours : BucketCount(h) = recorded[h]
       /\ \A d \in 0..MaxDate :
             LET day == {h \in AllHours : DateKey(h) = d}
             IN  SumOver(day, [h \in day |-> BucketCount(h)]) = SumOver(day, recorded)

(***************************************************************************)
(* C34 An HourlyBucket is immutable once finalized: after a bucket for     *)
(* hour H has been stored in the hourly map, no later operation (further   *)
(* samples, another rollover, stop followed by more samples, restart with  *)
(* reload within the same hour) replaces or changes the bucket stored for  *)
(* H.  stop() keeps the accumulator, so a later finalization of the same   *)
(* hour stores another bucket under H, and after a restart the new         *)
(* accumulator starts at 0 and its bucket replaces the stored one: the     *)
(* model refutes it.                                                       *)
(***************************************************************************)
C34_BucketImmutable ==
    [][\A h \in DOMAIN hourly_metrics :
          h \in DOMAIN hourly_metrics' /\ hourly_metrics'[h] = hourly_metrics[h]]_vars

\* the files hold the tables of the memory
FilesCurrent == disk.hourly = hourly_metrics /\ disk.daily = daily_metrics

\* the hour in progress, when it has a sample, has its bucket in the hourly file, with all of
\* its samples
CurrentHourSaved ==
    hour_accumulator.sample_count > 0
      => /\ hour_accumulator.hour \in DOMAIN disk.hourly
         /\ disk.hourly[hour_accumulator.hour].sample_count = hour_accumulator.sample_count

\* every hour that has a bucket in the hourly map has one in the hourly file
BucketsOnDisk == DOMAIN hourly_metrics \subseteq DOMAIN disk.hourly

MonServices == {"ollama"}

\* the activity_type arguments of record_service_activity
ActivityTypes == {"request", "inference"}

\* the rolling window of record_service_activity, in seconds
Window == 300

\* the seconds that pass between two steps of the model
Elapses == {100, 200}

\* last second of the modelled time span
MaxSeconds == 600
\* record_service_activity calls in one run
MaxEvents == 2
\* _update_service_metrics calls in one run
MaxTicks == 2

\* None for last_request_time
NoTime == -1

InitMonitor ==
    /\ mon_now = 0
    /\ service_activity = EmptyTable
    /\ service_metrics = EmptyTable
    /\ events = << >>
    /\ ticks = 0
    /\ request_hours = {}

\* time passes
MonTimePasses(d) ==
    /\ mon_now + d <= MaxSeconds
    /\ mon_now' = mon_now + d
    /\ UNCHANGED <<service_activity, service_metrics, events, ticks, request_hours, notMon>>

\* [t for t in ts if t > cutoff]
After(ts, cutoff) == SelectSeq(ts, LAMBDA t : t > cutoff)

\* ResourceMonitor.record_service_activity
RecordServiceActivity(s, type) ==
    /\ Len(events) < MaxEvents
    /\ LET old == IF s \in DOMAIN service_activity
                    THEN service_activity[s]
                    ELSE [last_request |-> mon_now, requests_5m |-> << >>, inferences_5m |-> << >>]
           cutoff == mon_now - Window
           activity ==
               [old EXCEPT !.last_request = mon_now,
                           !.requests_5m = IF type = "request"
                                             THEN Append(After(@, cutoff), mon_now) ELSE @,
                           !.inferences_5m = IF type = "inference"
                                               THEN Append(After(@, cutoff), mon_now) ELSE @]
       IN  service_activity' = Put(service_activity, s, activity)
    /\ events' = Append(events, [service |-> s, type |-> type, at |-> mon_now])
    /\ request_hours' = IF type = "request" THEN request_hours \cup {HourKey(clock)}
                        ELSE request_hours
    /\ UNCHANGED <<mon_now, service_metrics, ticks, notMon>>

\* _update_service_metrics for a process snapshot of service s: the two fields it takes from
\* the activity dict
UpdateServiceMetrics(s) ==
    /\ ticks < MaxTicks
    /\ ticks' = ticks + 1
    /\ LET known == s \in DOMAIN service_activity
       IN  service_metrics' =
             Put(service_metrics, s,
                 [last_request_time |-> IF known THEN service_activity[s].last_request ELSE NoTime,
                  request_count_5m |-> IF known THEN Len(service_activity[s].requests_5m) ELSE 0])
    /\ UNCHANGED <<mon_now, service_activity, events, request_hours, notMon>>

\* activity, sampling ticks and time
NextMonitor ==
    \/ \E d \in Elapses : MonTimePasses(d)
    \/ \E s \in MonServices, type \in ActivityTypes : RecordServiceActivity(s, type)
    \/ \E s \in MonServices : UpdateServiceMetrics(s)

\* activity and the samples of the history, up to the shutdown
NextActivity ==
    \/ NextHour
    \/ NextDate
    \/ \E level \in ThermalLevels : RecordSample(level)
    \/ \E s \in MonServices, type \in ActivityTypes : RecordServiceActivity(s, type)
    \/ HistStop

\* the bucket of hour h is stored by the step
Stored(h) ==
    /\ h \in DOMAIN hourly_metrics'
    /\ h \notin DOMAIN hourly_metrics \/ hourly_metrics'[h] # hourly_metrics[h]

(***************************************************************************)
(* C36 Activity roll-up: if request activity is recorded during an hour in *)
(* which samples are recorded, the finalized HourlyBucket of that hour has *)
(* a non-zero request counter, and the DailyBucket's active_hours equals   *)
(* the number of that date's hours with any request activity.  add_sample  *)
(* never touches total_requests, so every bucket has 0 requests and every  *)
(* day 0 active hours: the model refutes it.                               *)
(***************************************************************************)
C36_ActivityRollUp ==
    [][\A h \in request_hours :
          Stored(h)
            => /\ hourly_metrics'[h].total_requests > 0
               /\ daily_metrics'[DateKey(h)].active_hours =
                    Cardinality({k \in DOMAIN hourly_metrics' \cap request_hours :
                                    DateKey(k) = DateKey(h)})]_vars

\* the 'request' events of service s in the 300 seconds before time t
RequestsWithin(s, t) ==
    {i \in DOMAIN events : /\ events[i].service = s
                           /\ events[i].type = "request"
                           /\ events[i].at > t - Window}

(***************************************************************************)
(* C37 Rolling five-minute request count: the request_count_5m reported    *)
(* for a service at a sampling tick equals the number of 'request'         *)
(* activity events recorded for that service within the 300 seconds before *)
(* the tick; events older than 300 seconds are never counted.  The list is *)
(* pruned only when a request is recorded, and the tick reports its length *)
(* as it is: the model refutes it.                                         *)
(***************************************************************************)
C37_RollingRequestCount ==
    [][(ticks' # ticks)
         => \A s \in DOMAIN service_metrics' :
               service_metrics'[s].request_count_5m
                 = Cardinality(RequestsWithin(s, mon_now))]_vars

\* the part of it that holds: when a request is recorded the list is pruned, and holds the
\* new event and the earlier ones of the last 300 seconds
C37_PrunedOnRequest ==
    [][\A s \in MonServices :
          (Len(events') # Len(events) /\ events'[Len(events')] = [service |-> s, type |-> "request", at |-> mon_now])
            => (Len(service_activity'[s].requests_5m) = Cardinality(RequestsWithin(s, mon_now)) + 1)]_vars

(***************************************************************************)
(* Service supervisor, the whole lifecycle: detect_existing_processes at   *)
(* startup, then start_service, stop_service and the reconciliation of     *)
(* handle_get_services, interleaved at their awaits.                       *)
(***************************************************************************)
\* the HTTP handler tasks that may run stop_service
Stoppers == {"k1"}

\* the handler task that runs start_service in a run with stop_service
Starter == "h1"

\* the ids the start and stop requests of such a run name
LifecycleIds == {"vibevoice", "ghost"}

\* the order in which detect_existing_processes visits the registered services
BootOrder == <<"vibevoice", "nextjs">>

\* a pid reported by lsof for a process the supervisor did not spawn
ExternalPid == 9

IdleStopCall == [pc |-> "idle", sid |-> "ghost", result |-> "none"]

\* startup is over: on_startup has returned and the handlers are served
InitServing ==
    /\ stopc = [k \in Stoppers |-> IdleStopCall]
    /\ boot = << >>
    /\ recon = "none"

\* the daemon has been constructed and on_startup has not run yet
InitBoot ==
    /\ stopc = [k \in Stoppers |-> IdleStopCall]
    /\ boot = BootOrder
    /\ recon = "none"

Serving == boot = << >>

\* detect_existing_processes for a service whatever its status (mutant)
DetectEveryStatus ==
    /\ boot # << >>
    /\ LET s == Head(boot)
       IN  IF health[s]
             THEN \E found \in {0, ExternalPid} :
                      svc' = [svc EXCEPT ![s].status = "running", ![s].started_at = TRUE,
                                         ![s].pid = IF found # 0 THEN found ELSE @]
             ELSE UNCHANGED svc
    /\ boot' = Tail(boot)
    /\ UNCHANGED <<children, health, call, stopc, recon, notLife>>

\* one iteration of the loop of detect_existing_processes, on the next service
DetectStep ==
    /\ boot # << >>
    /\ LET s == Head(boot)
       IN  IF svc[s].status = "stopped" /\ health[s]
             THEN \E found \in {0, ExternalPid} :
                      svc' = [svc EXCEPT ![s].status = "running", ![s].started_at = TRUE,
                                         ![s].pid = IF found # 0 THEN found ELSE @]
             ELSE UNCHANGED svc
    /\ boot' = Tail(boot)
    /\ UNCHANGED <<children, health, call, stopc, recon, notLife>>

\* the children after a signal that ends process p (another pid is not a child of the model)
Killed(ch, p) == IF p \in DOMAIN ch THEN [ch EXCEPT ![p] = "exited"] ELSE ch

\* os.kill(pid, SIGTERM) may raise OSError: never for a live child, else the pid may be gone
KillMayRaise(p) == ~(p \in DOMAIN children /\ children[p] = "alive")

\* stop_service from the kill by port to the await of the broadcast: the port's processes are
\* signalled, the owned process is terminated and waited for, the four fields are cleared
StopTail(k, s, ch) ==
    /\ children' = Killed(ch, svc[s].process)
    /\ svc' = [svc EXCEPT ![s].status = "stopped", ![s].pid = 0, ![s].started_at = FALSE,
                          ![s].process = 0]
    /\ stopc' = [stopc EXCEPT ![k].pc = "bcast", ![k].sid = s, ![k].result = "none"]

\* stop_service up to its first await: the registry lookup and the SIGTERM to the known pid
StopBegin(k, sid) ==
    /\ Serving
    /\ stopc[k].pc = "idle"
    /\ IF sid \notin Services
         THEN /\ stopc' = [stopc EXCEPT ![k] = [pc |-> "idle", sid |-> sid, result |-> "not_found"]]
              /\ UNCHANGED <<svc, children>>
         ELSE IF svc[sid].pid # 0
           THEN \/ /\ stopc' = [stopc EXCEPT ![k] = [pc |-> "sleep", sid |-> sid, result |-> "none"]]
                   /\ UNCHANGED <<svc, children>>
                \/ /\ KillMayRaise(svc[sid].pid)
                   /\ StopTail(k, sid, children)
           ELSE StopTail(k, sid, children)
    /\ UNCHANGED <<health, call, boot, recon, notLife>>

\* asyncio.sleep(1) is over: os.kill(service.pid, 0) on the pid the record holds now, SIGKILL
\* when it is alive; os.kill(None, 0) raises TypeError, which the outer except catches
StopAfterSleep(k) ==
    /\ stopc[k].pc = "sleep"
    /\ LET s == stopc[k].sid
       IN  IF svc[s].pid = 0
             THEN /\ svc' = [svc EXCEPT ![s].error_message = "exception"]
                  /\ stopc' = [stopc EXCEPT ![k].pc = "bcast_error"]
                  /\ UNCHANGED children
             ELSE StopTail(k, s, Killed(children, svc[s].pid))
    /\ UNCHANGED <<health, call, boot, recon, notLife>>

\* the broadcast of the stopped service raises: the except branch sets the message
StopBroadcastRaises(k) ==
    /\ stopc[k].pc = "bcast"
    /\ svc' = [svc EXCEPT ![stopc[k].sid].error_message = "exception"]
    /\ stopc' = [stopc EXCEPT ![k].pc = "bcast_error"]
    /\ UNCHANGED <<children, health, call, boot, recon, notLife>>

\* the last broadcast returns and stop_service returns; the start calls of the same service
\* that are in flight at a successful return are marked
StopReturn(k) ==
    /\ stopc[k].pc \in {"bcast", "bcast_error"}
    /\ stopc' = [stopc EXCEPT ![k].pc = "idle",
                              ![k].result = IF stopc[k].pc = "bcast" THEN "stopped" ELSE "exception"]
    /\ call' = [c \in Callers |->
                  IF stopc[k].pc = "bcast" /\ InFlight(c) /\ call[c].sid = stopc[k].sid
                    THEN [call[c] EXCEPT !.stop_returned = TRUE]
                    ELSE call[c]]
    /\ UNCHANGED <<svc, children, health, boot, recon, notLife>>

\* handle_get_services: a service whose status is "running" is probed
ReconBegin(s) ==
    /\ Serving
    /\ recon = "none"
    /\ svc[s].status = "running"
    /\ recon' = s
    /\ UNCHANGED <<svc, children, health, call, stopc, boot, notLife>>

\* the probe of handle_get_services answers
ReconProbed ==
    /\ recon # "none"
    /\ IF health[recon]
         THEN UNCHANGED svc
         ELSE svc' = [svc EXCEPT ![recon].status = "error",
                                 ![recon].error_message =
                                     IF svc[recon].process # 0 /\ ~ProcessAlive(svc[recon].process)
                                       THEN "exited" ELSE "health_check_failed"]
    /\ recon' = "none"
    /\ UNCHANGED <<children, health, call, stopc, boot, notLife>>

\* a start request is served once startup is over
StartRequest(c, sid) == Serving /\ StartBegin(c, sid)

\* an application made by create_app starts over the module-level state while no handler of
\* an earlier one is running: on_startup calls detect_existing_processes
AppStartup ==
    /\ Serving
    /\ \A c \in Callers : ~InFlight(c)
    /\ \A k \in Stoppers : stopc[k].pc = "idle"
    /\ recon = "none"
    /\ boot' = BootOrder
    /\ UNCHANGED <<svc, children, health, call, stopc, recon, notLife>>

NextLifecycle ==
    \/ DetectStep
    \/ \E sid \in LifecycleIds : StartRequest(Starter, sid)
    \/ StartProbed(Starter)
    \/ SpawnChild(Starter)
    \/ SpawnFails(Starter)
    \/ StartAfterSleep(Starter)
    \/ StartReturn(Starter)
    \/ FinalBroadcastRaises(Starter)
    \/ \E k \in Stoppers, sid \in LifecycleIds : StopBegin(k, sid)
    \/ \E k \in Stoppers : StopAfterSleep(k)
    \/ \E k \in Stoppers : StopBroadcastRaises(k)
    \/ \E k \in Stoppers : StopReturn(k)
    \/ \E s \in Services : ReconBegin(s)
    \/ ReconProbed
    \/ AppStartup
    \/ \E p \in 1..MaxSpawns : ChildExit(p)
    \/ \E s \in Services : HealthChange(s)

\* the supervisor holds the handle of a process it spawned for s
Spawned(s) == svc[s].process # 0

\* the (success, message) pairs of start_service and stop_service with success True
Succeeded(result) == result \in {"started", "stopped"}

\* the response handle_start_service, handle_stop_service and handle_restart_service build from
\* the pair their last call returned; restart answers with the pair of its start_service call
ServiceResponse(result) ==
    IF Succeeded(result)
      THEN [status |-> 200, body |-> [status |-> "ok", message |-> result]]
      ELSE [status |-> 400, body |-> [status |-> "error", message |-> result]]

\* the response is 404 with a body {error: message}
IsNotFoundResponse(resp) == resp.status = 404 /\ DOMAIN resp.body = {"error"}

(***************************************************************************)
(* C22 A start, stop or restart request on an unknown service id is        *)
(* answered with status 404 and a body of the form {error: message}, and   *)
(* it changes no service state: no record exists for the id.  Refuted:     *)
(* the handlers answer every failure, the unknown id included, with 400    *)
(* and {status: "error", message}.                                         *)
(***************************************************************************)
C22_UnknownServiceIs404 ==
    /\ DOMAIN svc = Services
    /\ \A c \in Callers :
          call[c].result = "not_found" => IsNotFoundResponse(ServiceResponse(call[c].result))
    /\ \A k \in Stoppers :
          stopc[k].result = "not_found" => IsNotFoundResponse(ServiceResponse(stopc[k].result))

(***************************************************************************)
(* C16 ServiceRuntime invariant: for a service whose process the           *)
(* supervisor spawned, pid is non-null if and only if the status is        *)
(* "running" or "starting".                                                *)
(***************************************************************************)
C16_PidIffLive ==
    \A s \in Services :
        Spawned(s) => (svc[s].pid # 0 <=> svc[s].status \in {"running", "starting"})

(***************************************************************************)
(* C17 A start whose health probe answers 200 returns the "already         *)
(* running" failure, spawns no process and leaves the status, the pid,     *)
(* started_at and the error message of the service as they were.           *)
(***************************************************************************)
C17_StartOnHealthyChangesNothing ==
    [][\A c \in Callers :
          (call[c].pc = "probe" /\ health[call[c].sid] /\ call'[c].pc = "idle")
             => (/\ call'[c].result = "already_running_on_port"
                 /\ children' = children
                 /\ svc'[call[c].sid] = svc[call[c].sid])]_vars

(***************************************************************************)
(* C18 Per-service serialization of start and stop: no stop(s) clears the  *)
(* record of s while a start(s) is between its transition to "starting"    *)
(* and its final transition, and a start(s) that was in flight when a      *)
(* stop(s) returned success does not change the record of s afterwards.    *)
(***************************************************************************)
C18_StartStopSerialized ==
    [][/\ \A k \in Stoppers, c \in Callers :
             ~(/\ stopc[k].pc # "bcast" /\ stopc'[k].pc = "bcast"
               /\ call[c].pc \in {"bcast_starting", "sleep"}
               /\ call[c].sid = stopc'[k].sid)
       /\ \A c \in Callers :
             (call[c].stop_returned /\ InFlight(c) /\ call'[c] # call[c])
                => svc'[call[c].sid] = svc[call[c].sid]]_vars

(***************************************************************************)
(* C19 stop(service) returns success with status "stopped", pid null,      *)
(* started_at null and no process handle, whatever the status was; a stop  *)
(* of a service that is stopped already leaves its record as it was.       *)
(***************************************************************************)
C19_StopClearsAndIsIdempotent ==
    [][\A k \in Stoppers :
          /\ (stopc[k].pc \in {"bcast", "bcast_error"} /\ stopc'[k].pc = "idle")
                => (/\ stopc'[k].result = "stopped"
                    /\ svc'[stopc[k].sid].status = "stopped"
                    /\ svc'[stopc[k].sid].pid = 0
                    /\ svc'[stopc[k].sid].started_at = FALSE
                    /\ svc'[stopc[k].sid].process = 0)
          /\ (/\ stopc[k].pc # "idle" /\ stopc[k].sid \in Services
              /\ svc[stopc[k].sid].status = "stopped" /\ svc[stopc[k].sid].pid = 0
              /\ call[Starter].pc = "idle")
                => svc'[stopc[k].sid] = svc[stopc[k].sid]]_vars

(***************************************************************************)
(* C20 External detection: one visit of detect_existing_processes sets a   *)
(* service whose status is "stopped" and whose health URL answers 200 to   *)
(* "running" with started_at set, the pid being the one the port lookup    *)
(* found, if any; a service with another status or a failing probe, and    *)
(* every other service, is left unchanged.                                 *)
(***************************************************************************)
C20_DetectExisting ==
    [][(boot # << >> /\ boot' = Tail(boot))
          => LET s == Head(boot)
             IN  /\ \A o \in Services \ {s} : svc'[o] = svc[o]
                 /\ IF svc[s].status = "stopped" /\ health[s]
                      THEN /\ svc'[s].status = "running"
                           /\ svc'[s].started_at = TRUE
                           /\ svc'[s].pid \in {svc[s].pid, ExternalPid}
                           /\ svc'[s].process = svc[s].process
                           /\ svc'[s].error_message = svc[s].error_message
                      ELSE svc'[s] = svc[s]]_vars

\* nextjs was detected with the pid lsof found, and a later startup has visited vibevoice in
\* status "error" and left it
C20_Witness ==
    /\ boot = <<"nextjs">>
    /\ svc["vibevoice"].status = "error"
    /\ svc["nextjs"].status = "running" /\ svc["nextjs"].pid = ExternalPid
    /\ svc["nextjs"].started_at

\* the step is the answer of the probe handle_get_services awaits
ProbeAnswers == recon # "none" /\ recon' = "none"

(***************************************************************************)
(* C33 Reconciliation on reading the service list: every service with      *)
(* status 'running' whose health probe fails is moved to 'error' (message  *)
(* 'Process exited with code N' when the owned process has exited,         *)
(* 'Health check failed' otherwise); services that are healthy, and        *)
(* services whose status is stopped, starting or error, keep their status. *)
(* The probe is awaited between the test of the status and the write, and  *)
(* a stop_service that runs meanwhile leaves 'stopped', which the write    *)
(* replaces by 'error': the model refutes it.                              *)
(***************************************************************************)
C33_Reconciliation ==
    [][ProbeAnswers
         => /\ \A s \in Services \ {recon} : svc'[s] = svc[s]
            /\ (svc[recon].status = "running" /\ ~health[recon])
                 => /\ svc'[recon].status = "error"
                    /\ svc'[recon].error_message =
                          (IF svc[recon].process # 0 /\ ~ProcessAlive(svc[recon].process)
                             THEN "exited" ELSE "health_check_failed")
            /\ (health[recon] \/ svc[recon].status # "running")
                 => (svc'[recon].status = svc[recon].status)]_vars

\* the part of it on the services that are running when the probe answers
C33_RunningOnly ==
    [][ProbeAnswers
         => /\ \A s \in Services \ {recon} : svc'[s] = svc[s]
            /\ (svc[recon].status = "running" /\ ~health[recon])
                 => (svc'[recon].status = "error")
            /\ (svc[recon].status = "running" /\ health[recon])
                 => (svc'[recon].status = "running")]_vars

(***************************************************************************)
(* Custom power profiles: the POWER_MODES table of idle_manager.py, its    *)
(* JSON file, and the profile operations of IdleManager.                   *)
(***************************************************************************)
\* writes of the profiles file that may fail in one run
MaxWriteFailures == 1

\* the profile ids the model passes to create_profile
CreateIds == {"lab", "Lab", "balanced"}

\* the profile ids the model passes to update_profile, delete_profile and duplicate_profile
ProfileIds == {"lab", "balanced"}

\* the mode names the model passes to set_mode in a run with custom profiles
ProfileModes == {"lab", "balanced", "performance"}

\* the threshold dicts the model passes to create_profile: all four keys
CreateThresholds == {[warm |-> 5, cool |-> 10, cold |-> 15, dormant |-> 20]}

\* the threshold dicts the model passes to set_thresholds in a run with custom profiles: one key
PartialThresholds == {[warm |-> 400]}

\* the optional arguments the model passes to update_profile ({} for None)
UpdateNames == {{}}
UpdateThresholds == {{}, {[cool |-> 3]}}
UpdateEnabled == {{}, {FALSE}}

\* an optional argument, or the existing value when it is None
OrElse(opt, existing) == IF opt = {} THEN existing ELSE CHOOSE x \in opt : TRUE

\* PowerMode(name, description, thresholds, enabled)
PowerMode(name, description, th, en) ==
    [name |-> name, description |-> description, thresholds |-> th, enabled |-> en]

\* profile_id.lower().replace(" ", "_"), over the ids of the model
Sanitize(profile_id) == IF profile_id = "Lab" THEN "lab" ELSE profile_id

\* profile_id in BUILTIN_POWER_MODES, with no built-in profile (mutant)
IsBuiltinNever(profile_id) == FALSE

\* profile_id in BUILTIN_POWER_MODES
IsBuiltin(profile_id) == profile_id \in DOMAIN BUILTIN_POWER_MODES

\* self.current_mode == profile_id of delete_profile, never true (mutant)
IsCurrentModeNever(profile_id) == FALSE

\* self.current_mode == profile_id of delete_profile
IsCurrentMode(profile_id) == current_mode = profile_id

\* the table without the entry of profile_id (del POWER_MODES[profile_id])
Del(pm, profile_id) == [k \in DOMAIN pm \ {profile_id} |-> pm[k]]

\* dict.update: the entries of b over those of a
DictUpdate(a, b) == [k \in DOMAIN a \cup DOMAIN b |-> IF k \in DOMAIN b THEN b[k] ELSE a[k]]

\* _save_custom_profiles: the custom profiles as dicts, when the file can be written; what was
\* there before when open() raises (the exception is logged and swallowed)
SaveCustomProfiles(pm, file, written) ==
    IF written
      THEN [pid \in {k \in DOMAIN pm : ~IsBuiltin(k)} |->
               [name |-> pm[pid].name, description |-> pm[pid].description,
                thresholds |-> pm[pid].thresholds, enabled |-> pm[pid].enabled]]
      ELSE file

\* one entry of the file as _load_custom_profiles reads it
LoadedMode(pid, profile_data) ==
    PowerMode(IF "name" \in DOMAIN profile_data THEN profile_data.name ELSE pid,
              IF "description" \in DOMAIN profile_data THEN profile_data.description ELSE "",
              FromDict(IF "thresholds" \in DOMAIN profile_data
                         THEN profile_data.thresholds ELSE [k \in {} |-> 0]),
              IF "enabled" \in DOMAIN profile_data THEN profile_data.enabled ELSE TRUE)

\* POWER_MODES of a fresh process after _load_custom_profiles
LoadCustomProfiles(file) ==
    [pid \in DOMAIN BUILTIN_POWER_MODES \cup {k \in DOMAIN file : ~IsBuiltin(k)} |->
        IF pid \in DOMAIN file /\ ~IsBuiltin(pid)
          THEN LoadedMode(pid, file[pid])
          ELSE BUILTIN_POWER_MODES[pid]]

\* get_profile: {} for None, else the one dict returned
GetProfile(pm, profile_id) ==
    IF profile_id \notin DOMAIN pm
      THEN {}
      ELSE {[name |-> pm[profile_id].name, description |-> pm[profile_id].description,
             thresholds |-> pm[profile_id].thresholds, enabled |-> pm[profile_id].enabled,
             id |-> profile_id, is_builtin |-> IsBuiltin(profile_id),
             is_custom |-> ~IsBuiltin(profile_id)]}

\* the arguments recorded for an operation other than create_profile
NoArgs == [name |-> "", description |-> "", thresholds |-> [k \in {} |-> 0], enabled |-> FALSE]

\* the record of a profile operation: what was called, with what, the bool it returned, whether
\* it was called on the mode that was current, and whether the daemon was restarted since
Op(op, id, ok, args) ==
    [op |-> op, id |-> id, ok |-> ok, args |-> args, on_current |-> current_mode = id,
     fresh |-> FALSE]

\* the outcomes of the write of _save_custom_profiles: it succeeds, or open() raises
WriteOutcomes == IF write_failures < MaxWriteFailures THEN BOOLEAN ELSE {TRUE}

\* the file _save_custom_profiles writes
PROFILES_FILE == "power_profiles.json"

\* the count of failed writes after a write with this outcome; a complete write replaces
\* whatever the file held
Wrote(written) ==
    /\ write_failures' = IF written THEN write_failures ELSE write_failures + 1
    /\ torn' = IF written THEN torn \ {PROFILES_FILE} ELSE torn

InitProfiles ==
    /\ profiles_file = [k \in {} |-> 0]
    /\ last_op = [op |-> "none", id |-> "", ok |-> FALSE, args |-> NoArgs,
                  on_current |-> FALSE, fresh |-> FALSE]
    /\ write_failures = 0

\* the fields of the manager no profile operation touches
idleRest == <<now, current_state, last_activity, keep_awake_until, transition_history,
              global_handlers, monitor, ready, inflight, wake_owed>>

\* the body of create_profile, called with the outcome of the file write
Create(op, profile_id, name, description, th, en, written) ==
    LET id == Sanitize(profile_id)
        args == [name |-> name, description |-> description, thresholds |-> th, enabled |-> en]
    IN  /\ IF IsBuiltin(id)
             THEN /\ last_op' = Op(op, profile_id, FALSE, args)
                  /\ written
                  /\ UNCHANGED <<power_modes, profiles_file, write_failures, torn>>
             ELSE LET pm == Put(power_modes, id, PowerMode(name, description, FromDict(th), en))
                  IN  /\ power_modes' = pm
                      /\ profiles_file' = SaveCustomProfiles(pm, profiles_file, written)
                      /\ Wrote(written)
                      /\ last_op' = Op(op, profile_id, TRUE, args)
        /\ UNCHANGED <<enabled, thresholds, current_mode, idleRest, notProfFile>>

\* IdleManager.create_profile
CreateProfile(profile_id, name, description, th, en) ==
    \E written \in WriteOutcomes : Create("create", profile_id, name, description, th, en, written)

\* IdleManager.update_profile
UpdateProfile(profile_id, name, description, th, en) ==
    \E written \in WriteOutcomes :
        /\ IF IsBuiltin(profile_id) \/ profile_id \notin DOMAIN power_modes
             THEN /\ last_op' = Op("update", profile_id, FALSE, NoArgs)
                  /\ written
                  /\ UNCHANGED <<power_modes, profiles_file, write_failures, torn>>
             ELSE LET existing == power_modes[profile_id]
                      updated_thresholds ==
                          IF th = {} THEN existing.thresholds
                          ELSE FromDict(DictUpdate(existing.thresholds, CHOOSE x \in th : TRUE))
                      pm == Put(power_modes, profile_id,
                                PowerMode(OrElse(name, existing.name),
                                          OrElse(description, existing.description),
                                          updated_thresholds,
                                          OrElse(en, existing.enabled)))
                  IN  /\ power_modes' = pm
                      /\ profiles_file' = SaveCustomProfiles(pm, profiles_file, written)
                      /\ Wrote(written)
                      /\ last_op' = Op("update", profile_id, TRUE, NoArgs)
        /\ UNCHANGED <<enabled, thresholds, current_mode, idleRest, notProfFile>>

\* IdleManager.delete_profile
DeleteProfile(profile_id) ==
    \E written \in WriteOutcomes :
        /\ IF IsBuiltin(profile_id) \/ profile_id \notin DOMAIN power_modes
             THEN /\ last_op' = Op("delete", profile_id, FALSE, NoArgs)
                  /\ written
                  /\ UNCHANGED <<power_modes, profiles_file, write_failures, torn, enabled, thresholds,
                                 current_mode>>
             ELSE LET pm == Del(power_modes, profile_id)
                  IN  /\ IF IsCurrentMode(profile_id)
                           THEN \* set_mode("balanced")
                                /\ current_mode' = "balanced"
                                /\ enabled' = power_modes["balanced"].enabled
                                /\ thresholds' = power_modes["balanced"].thresholds
                           ELSE UNCHANGED <<enabled, thresholds, current_mode>>
                      /\ power_modes' = pm
                      /\ profiles_file' = SaveCustomProfiles(pm, profiles_file, written)
                      /\ Wrote(written)
                      /\ last_op' = Op("delete", profile_id, TRUE, NoArgs)
        /\ UNCHANGED <<idleRest, notProfFile>>

\* IdleManager.duplicate_profile
DuplicateProfile(source_id, new_id, new_name) ==
    IF source_id \notin DOMAIN power_modes
      THEN /\ last_op' = Op("duplicate", new_id, FALSE, NoArgs)
           /\ UNCHANGED <<power_modes, profiles_file, write_failures, torn, enabled, thresholds,
                          current_mode, idleRest, notProfFile>>
      ELSE LET source == power_modes[source_id]
           IN  \E written \in WriteOutcomes :
                   Create("duplicate", new_id, new_name, "Based on " \o source.name,
                          source.thresholds, source.enabled, written)

\* the daemon is killed inside _save_custom_profiles, in the json.dump of a create_profile:
\* open(PROFILES_FILE, 'w') has truncated the file and the dump is not complete.  The table in
\* memory is gone with the process.
CrashInProfileSave(profile_id) ==
    /\ ~IsBuiltin(Sanitize(profile_id))
    /\ torn' = torn \cup {PROFILES_FILE}
    /\ power_modes' = BUILTIN_POWER_MODES
    /\ last_op' = Op("create", profile_id, FALSE, NoArgs)
    /\ UNCHANGED <<profiles_file, write_failures, enabled, thresholds, current_mode, idleRest,
                   notProfFile>>

\* what json.load returns for the profiles file; it raises on a file that is not complete,
\* and _load_custom_profiles then loads nothing
ReadProfiles == IF PROFILES_FILE \in torn THEN [k \in {} |-> 0] ELSE profiles_file

\* a new daemon process: the module is imported again, the manager constructed, the file loaded
DaemonRestart ==
    /\ power_modes' = LoadCustomProfiles(ReadProfiles)
    /\ current_state' = "active"
    /\ last_activity' = now
    /\ enabled' = TRUE
    /\ thresholds' = DefaultThresholds
    /\ current_mode' = "balanced"
    /\ keep_awake_until' = -1
    /\ transition_history' = << >>
    /\ global_handlers' = << >>
    /\ monitor' = [pc |-> "stopped", wake_at |-> 0]
    /\ ready' = << >>
    /\ inflight' = << >>
    /\ wake_owed' = FALSE
    /\ last_op' = [last_op EXCEPT !.fresh = TRUE]
    /\ UNCHANGED <<now, profiles_file, write_failures, notProf>>

NextProfiles ==
    \/ \E profile_id \in CreateIds, th \in CreateThresholds, en \in BOOLEAN :
           CreateProfile(profile_id, "Lab", "bench", th, en)
    \/ \E profile_id \in ProfileIds, name \in UpdateNames, th \in UpdateThresholds,
          en \in UpdateEnabled :
           UpdateProfile(profile_id, name, {}, th, en)
    \/ \E profile_id \in ProfileIds : DeleteProfile(profile_id)
    \/ \E source_id \in ProfileIds, new_id \in ProfileIds : DuplicateProfile(source_id, new_id, "Copy")
    \/ \E mode_name \in ProfileModes : SetMode(mode_name)
    \/ \E th \in PartialThresholds : SetThresholds(th)
    \/ DaemonRestart

(***************************************************************************)
(* C12 Profile persistence round-trip: when create_profile(id, name,       *)
(* description, thresholds, enabled) returned True and the daemon was      *)
(* restarted right after it, get_profile(id) of the new daemon returns the *)
(* name, the description, the thresholds and the enabled flag passed.      *)
(***************************************************************************)
C12_ProfileRoundTrip ==
    (last_op.op = "create" /\ last_op.ok /\ last_op.fresh) =>
        \E p \in GetProfile(power_modes, last_op.id) :
            /\ p.name = last_op.args.name
            /\ p.description = last_op.args.description
            /\ \A k \in DOMAIN last_op.args.thresholds : p.thresholds[k] = last_op.args.thresholds[k]
            /\ p.enabled = last_op.args.enabled

(***************************************************************************)
(* C13 Deleting the custom profile that is the current mode reverts the    *)
(* manager to the built-in "balanced": after the call current_mode is      *)
(* "balanced", enabled is true, the thresholds are (30, 300, 1800, 7200)   *)
(* and the deleted id is not in the profile table.                         *)
(***************************************************************************)
C13_DeleteActiveReverts ==
    [][(/\ last_op' # last_op /\ ~last_op'.fresh
        /\ last_op'.op = "delete"
        /\ last_op'.ok
        /\ current_mode = last_op'.id)
       => (/\ current_mode' = "balanced"
           /\ enabled' = TRUE
           /\ thresholds' = [warm |-> 30, cool |-> 300, cold |-> 1800, dormant |-> 7200]
           /\ last_op'.id \notin DOMAIN power_modes')]_vars

\* the custom profile "lab", disabled, was the current mode and has just been deleted
C13_Witness ==
    /\ last_op.op = "delete" /\ last_op.ok /\ last_op.on_current /\ last_op.id = "lab"
    /\ "lab" \notin DOMAIN power_modes
    /\ current_mode = "balanced" /\ enabled

\* the built-in profile id is in the table with these thresholds and this enabled flag
IsOriginal(id, w, c, k, d, en) ==
    /\ id \in DOMAIN power_modes
    /\ power_modes[id].thresholds = [warm |-> w, cool |-> c, cold |-> k, dormant |-> d]
    /\ power_modes[id].enabled = en

\* the five built-in profiles are in the table as shipped
BuiltinsAsShipped ==
    /\ IsOriginal("performance", 9999999, 9999999, 9999999, 9999999, FALSE)
    /\ IsOriginal("balanced", 30, 300, 1800, 7200, TRUE)
    /\ IsOriginal("power_saver", 10, 60, 300, 1800, TRUE)
    /\ IsOriginal("development", 60, 180, 600, 3600, TRUE)
    /\ IsOriginal("presentation", 300, 900, 3600, 7200, TRUE)

(***************************************************************************)
(* C14 Built-in profiles are immutable: in every state the five built-in   *)
(* profiles are in the table with their original thresholds and enabled    *)
(* flags, and a create, update or delete on a built-in id returns False    *)
(* and leaves the table as it was.                                         *)
(***************************************************************************)
C14_BuiltinsImmutable ==
    /\ []BuiltinsAsShipped
    /\ [][(/\ last_op' # last_op /\ ~last_op'.fresh
           /\ last_op'.op \in {"create", "update", "delete"}
           /\ last_op'.id \in {"performance", "balanced", "power_saver", "development",
                                "presentation"})
          => (~last_op'.ok /\ power_modes' = power_modes)]_vars

\* a delete of "balanced" was refused while a custom profile is in the table
C14_Witness ==
    /\ last_op.op = "delete" /\ last_op.id = "balanced" /\ ~last_op.ok
    /\ "lab" \in DOMAIN power_modes
    /\ power_modes["balanced"].thresholds.warm = 30

\* warm < cool < cold < dormant
StrictlyIncreasing(th) == th.warm < th.cool /\ th.cool < th.cold /\ th.cold < th.dormant

\* the thresholds of a mode that never idles: all four at the sentinel
Sentinel(th) == \A k \in ThresholdKeys : th[k] = 9999999

(***************************************************************************)
(* C15 Threshold invariant: the thresholds of every profile in the table   *)
(* and the thresholds the manager applies are strictly increasing by tier  *)
(* (warm < cool < cold < dormant), the disabled sentinels aside.           *)
(***************************************************************************)
C15_ThresholdsIncrease ==
    /\ \A id \in DOMAIN power_modes :
           Sentinel(power_modes[id].thresholds) \/ StrictlyIncreasing(power_modes[id].thresholds)
    /\ Sentinel(thresholds) \/ StrictlyIncreasing(thresholds)

\* the hours stored in hourly_metrics whose key has the date prefix d
HoursOfDate(d) == {h \in DOMAIN hourly_metrics : h[1] = d}

(***************************************************************************)
(* C11 Daily is a function of hourly: the DailyMetrics stored for a date   *)
(* is the aggregate of exactly the HourlyMetrics whose key has that date,  *)
(* every date with a stored hour has one, and finalizing once more with    *)
(* the hourly set unchanged leaves both tables as they are.                *)
(***************************************************************************)
C11_DailyFromHourly ==
    /\ \A h \in DOMAIN hourly_metrics : h[1] \in DOMAIN daily_metrics
    /\ \A d \in DOMAIN daily_metrics :
          LET day == HoursOfDate(d)
              dm == daily_metrics[d]
          IN  /\ day # {}
              /\ dm.date = d
              /\ dm.hours_aggregated = Cardinality(day)
              /\ \A h \in day : hourly_metrics[h].max_thermal_level <= dm.max_thermal_level
              /\ \E h \in day : hourly_metrics[h].max_thermal_level = dm.max_thermal_level
              /\ dm.thermal_events_count =
                     Cardinality({h \in day : hourly_metrics[h].max_thermal_level > 1})
              /\ dm.total_requests = SumOver(day, [h \in day |-> hourly_metrics[h].total_requests])
              /\ dm.active_hours = Cardinality({h \in day : hourly_metrics[h].total_requests > 0})
    /\ LET once == FinalizeCurrentHour(Tables, hour_accumulator)
           twice == FinalizeCurrentHour(once, hour_accumulator)
       IN  twice.hourly = once.hourly /\ twice.daily = once.daily

\* two dates have a DailyMetrics, one of them aggregated from two hours, one of which was hot
C11_Witness ==
    /\ Cardinality(DOMAIN daily_metrics) = 2
    /\ \E d \in DOMAIN daily_metrics :
          daily_metrics[d].hours_aggregated = 2 /\ daily_metrics[d].thermal_events_count = 1

\* the step is a call of create_profile, or of duplicate_profile that reaches it
CreateReturns ==
    last_op' # last_op /\ last_op'.op \in {"create", "duplicate"} /\ ~last_op'.fresh

(***************************************************************************)
(* C38 create_profile returns False and leaves the profile table and the   *)
(* profiles file unchanged when the (sanitized) profile_id already exists, *)
(* whether as a builtin or as a custom profile; it returns True only when  *)
(* it added a new profile.  The code tests the builtin table only, and a   *)
(* create on the id of a custom profile replaces it and returns True: the  *)
(* model refutes it.                                                       *)
(***************************************************************************)
C38_CreateRejectsExisting ==
    [][CreateReturns
         => LET id == Sanitize(last_op'.id)
            IN  /\ (id \in DOMAIN power_modes)
                     => /\ ~last_op'.ok
                        /\ power_modes' = power_modes
                        /\ profiles_file' = profiles_file
                /\ last_op'.ok => (id \notin DOMAIN power_modes /\ id \in DOMAIN power_modes')]_vars

\* the part of it on the builtin ids, which holds
C38_BuiltinRejected ==
    [][CreateReturns
         => (IsBuiltin(Sanitize(last_op'.id))
               => /\ ~last_op'.ok
                  /\ power_modes' = power_modes
                  /\ profiles_file' = profiles_file)]_vars

(***************************************************************************)
(* C40 Active profile coherence: in every reachable state current_mode is  *)
(* 'custom' or the id of a profile present in the profile table, and when  *)
(* it is a profile id the thresholds and enabled flag the manager applies  *)
(* are equal to those of that profile, after any sequence of set_mode,     *)
(* set_thresholds, create, update, delete and duplicate operations.        *)
(* update_profile and create_profile replace the table entry of the        *)
(* current mode and leave the manager's copies as they were: the model     *)
(* refutes it.                                                             *)
(***************************************************************************)
C40_ActiveProfileCoherent ==
    \/ current_mode = "custom"
    \/ /\ current_mode \in DOMAIN power_modes
       /\ thresholds = power_modes[current_mode].thresholds
       /\ enabled = power_modes[current_mode].enabled

\* the part of it that holds: the current mode is 'custom' or names a profile of the table
C40_ModeInTable == current_mode = "custom" \/ current_mode \in DOMAIN power_modes

(***************************************************************************)
(* Crashes during the writes of the data directory.                        *)
(***************************************************************************)
NextCrash ==
    \/ NextHour
    \/ \E level \in ThermalLevels : RecordSample(level)
    \/ HistStart
    \/ SaveLoopTick
    \/ \E f \in {HOURLY_FILE, DAILY_FILE} : CrashInFlush(f)
    \/ Restart
    \/ \E profile_id \in CreateIds, th \in CreateThresholds :
           CreateProfile(profile_id, "Lab", "bench", th, TRUE)
    \/ \E profile_id \in CreateIds : CrashInProfileSave(profile_id)
    \/ DaemonRestart

(***************************************************************************)
(* C24 Persisted files are written atomically: if the daemon crashes at    *)
(* any point of a flush of the hourly and daily maps or of a save of the   *)
(* custom profiles, each file on disk is its complete previous content or  *)
(* its complete new content, never a truncated or partial one.  Refuted:   *)
(* both writers open the file itself with mode 'w' and dump into it.       *)
(***************************************************************************)
C24_AtomicWrites == torn = {}

(***************************************************************************)
(* Specifications: one per subsystem; the other subsystems stand still.    *)
(***************************************************************************)
Init == InitSup /\ InitServing /\ InitIdle /\ InitProfiles /\ InitCalcIdle /\ InitIngest /\ InitHist /\ InitMonitor

SpecSupervisor == Init /\ [][NextSupervisor]_vars

SpecTransition == Init /\ [][NextTransition]_vars

SpecFaults == Init /\ [][NextFaults]_vars

InitLongHistory ==
    /\ InitSup /\ InitServing /\ InitProfiles /\ InitCalcIdle /\ InitIngest /\ InitHist /\ InitMonitor
    /\ \E n \in HistoryPrefills : InitIdleWith(PastHistory(n))

SpecHistory == InitLongHistory /\ [][NextHistory]_vars

SpecIdle == Init /\ [][NextIdleManager]_vars

InitDrawCalc == InitSup /\ InitServing /\ InitIdle /\ InitProfiles /\ InitCalc /\ InitIngest /\ InitHist /\ InitMonitor

SpecCalc == InitDrawCalc /\ [][NextCalc]_vars

InitFullRings == InitSup /\ InitServing /\ InitIdle /\ InitProfiles /\ InitCalcIdle /\ InitRing /\ InitHist /\ InitMonitor

SpecRing == InitFullRings /\ [][NextRing]_vars

\* no log entry yet, the metrics ring empty or full
InitEmptyLogs == InitFullRings /\ logs = << >>

SpecClear == InitEmptyLogs /\ [][NextClear]_vars

SpecReject == Init /\ [][NextReject]_vars

SpecIngest == Init /\ [][NextIngest]_vars

SpecCrash == Init /\ [][NextCrash]_vars

\* the save loop wakes every 300 s for as long as the history runs
SpecHistLive == Init /\ [][NextHist]_vars /\ WF_vars(SaveLoopTick)

SpecActivity == Init /\ [][NextActivity]_vars

SpecMonitor == Init /\ [][NextMonitor]_vars

SpecHist == Init /\ [][NextHist]_vars

SpecProfiles == Init /\ [][NextProfiles]_vars

InitLifecycle == InitSup /\ InitBoot /\ InitIdle /\ InitProfiles /\ InitCalcIdle /\ InitIngest /\ InitHist /\ InitMonitor

SpecLifecycle == InitLifecycle /\ [][NextLifecycle]_vars

====
